---- MODULE Spec2Model ----
(***************************************************************************)
(* Model of the simulation engine of src/main.py: the TCP congestion       *)
(* control state machines (TCPTahoe, TCPReno), the router                  *)
(* (dijkstra_shortest_path) and the timer-driven flow simulator of         *)
(* CloudNetworkSimulator.                                                  *)
(*                                                                         *)
(* Python floats are modelled as exact rationals <<n, d>> in lowest terms. *)
(***************************************************************************)
EXTENDS Integers, Sequences, FiniteSets, TLC

VARIABLES
    nodes,        \* self.nodes: the node objects of the topology, in creation order
    links,        \* self.connections: the link records
    nd,           \* every NetworkNode object ever created (also those a reset dropped)
    selected,     \* self.selected_node (0 is None)
    packets,      \* self.packets
    running,      \* self.simulation_running
    load,         \* self.traffic_load
    rate,         \* self.packet_generation_rate
    algorithm,    \* self.congestion_algorithm
    stats,        \* self.routing_stats
    series,       \* time_stamps, latency_history, throughput_history
    timers,       \* callbacks registered with root.after and not yet run
    now,          \* time.time(), in milliseconds
    route,        \* the result the path finder last displayed
    lastOp,       \* the operation that ran last, with what it was given
    calls         \* how many timer callbacks ran and commands were given, and of how many

vars == <<nodes, links, nd, selected, packets, running, load, rate, algorithm,
          stats, series, timers, now, route, lastOp, calls>>

-----------------------------------------------------------------------------
(* Bounds of the model.                                                    *)

\* on_ack_received calls made on one control instance in the control harness
MaxAcks == 21
\* largest congestion window a call may start from in the control harness
MaxCwnd == 24
\* largest denominator a congestion window may take (1/cwnd growth)
MaxDen == 12

-----------------------------------------------------------------------------
(* Exact rational arithmetic standing in for Python's float arithmetic.    *)

Abs(x) == IF x < 0 THEN -x ELSE x

RECURSIVE GCD(_, _)
GCD(a, b) == IF b = 0 THEN a ELSE GCD(b, a % b)

\* the rational n/d (d # 0) in lowest terms with a positive denominator
Rat(n, d) ==
    LET g == GCD(Abs(n), Abs(d))
        s == IF d < 0 THEN -1 ELSE 1
    IN  <<(s * n) \div g, (s * d) \div g>>

RInt(i) == <<i, 1>>
RAdd(a, b) == Rat(a[1] * b[2] + b[1] * a[2], a[2] * b[2])
RSub(a, b) == Rat(a[1] * b[2] - b[1] * a[2], a[2] * b[2])
RMul(a, b) == Rat(a[1] * b[1], a[2] * b[2])
RDiv(a, b) == Rat(a[1] * b[2], a[2] * b[1])
RLt(a, b) == a[1] * b[2] < b[1] * a[2]
RLe(a, b) == a[1] * b[2] <= b[1] * a[2]
RMax(a, b) == IF RLt(a, b) THEN b ELSE a
RMin(a, b) == IF RLt(b, a) THEN b ELSE a
\* Python's int(x): truncation toward zero
RTrunc(a) == IF a[1] >= 0 THEN a[1] \div a[2] ELSE -((-a[1]) \div a[2])
\* floor(x), for stating properties
RFloor(a) == a[1] \div a[2]

-----------------------------------------------------------------------------
(* TCPCongestionControl, TCPTahoe, TCPReno                                 *)

Algorithms == {"Tahoe", "Reno"}

\* TCPCongestionControl.__init__ followed by the subclass's algorithm tag
NewControl(alg) ==
    [algorithm |-> alg, cwnd |-> RInt(1), ssthresh |-> RInt(64),
     state |-> "slow_start", duplicate_acks |-> 0,
     packets_sent |-> 0, packets_acked |-> 0]

\* get_window_size rounding to the nearest whole number instead of cutting
GetWindowSizeRounded(c) ==
    LET i == RTrunc(RAdd(c.cwnd, Rat(1, 2))) IN IF 1 > i THEN 1 ELSE i

GetWindowSize(c) ==
    LET i == RTrunc(c.cwnd) IN IF 1 > i THEN 1 ELSE i

\* on_ack_received leaving slow_start only once cwnd is past ssthresh
TahoeOnAckPastThreshold(c) ==
    LET c1 == [c EXCEPT !.packets_acked = @ + 1, !.duplicate_acks = 0]
    IN  IF c1.state = "slow_start"
        THEN LET c2 == [c1 EXCEPT !.cwnd = RAdd(@, RInt(1))]
             IN  IF RLt(c2.ssthresh, c2.cwnd)
                 THEN [c2 EXCEPT !.state = "congestion_avoidance"]
                 ELSE c2
        ELSE IF c1.state = "congestion_avoidance"
        THEN [c1 EXCEPT !.cwnd = RAdd(@, RDiv(RInt(1), @))]
        ELSE c1

TahoeOnAck(c) ==
    LET c1 == [c EXCEPT !.packets_acked = @ + 1, !.duplicate_acks = 0]
    IN  IF c1.state = "slow_start"
        THEN LET c2 == [c1 EXCEPT !.cwnd = RAdd(@, RInt(1))]
             IN  IF RLe(c2.ssthresh, c2.cwnd)
                 THEN [c2 EXCEPT !.state = "congestion_avoidance"]
                 ELSE c2
        ELSE IF c1.state = "congestion_avoidance"
        THEN [c1 EXCEPT !.cwnd = RAdd(@, RDiv(RInt(1), @))]
        ELSE c1

\* on_timeout leaving the duplicate-ACK count as it is
TahoeOnTimeoutKeepsCount(c) ==
    [c EXCEPT !.ssthresh = RMax(RDiv(c.cwnd, RInt(2)), RInt(2)),
              !.cwnd = RInt(1),
              !.state = "slow_start"]

TahoeOnTimeout(c) ==
    [c EXCEPT !.ssthresh = RMax(RDiv(c.cwnd, RInt(2)), RInt(2)),
              !.cwnd = RInt(1),
              !.state = "slow_start",
              !.duplicate_acks = 0]

\* on_duplicate_ack reacting only to the fourth duplicate
TahoeOnDuplicateAckAfterThree(c) ==
    LET c1 == [c EXCEPT !.duplicate_acks = @ + 1]
    IN  IF c1.duplicate_acks > 3 THEN TahoeOnTimeout(c1) ELSE c1

TahoeOnDuplicateAck(c) ==
    LET c1 == [c EXCEPT !.duplicate_acks = @ + 1]
    IN  IF c1.duplicate_acks >= 3 THEN TahoeOnTimeout(c1) ELSE c1

\* on_ack_received leaving fast_recovery with the duplicates still counted
RenoOnAckKeepsCount(c) ==
    LET c1 == [c EXCEPT !.packets_acked = @ + 1]
    IN  IF c1.state = "slow_start"
        THEN LET c2 == [c1 EXCEPT !.cwnd = RAdd(@, RInt(1)),
                                  !.duplicate_acks = 0]
             IN  IF RLe(c2.ssthresh, c2.cwnd)
                 THEN [c2 EXCEPT !.state = "congestion_avoidance"]
                 ELSE c2
        ELSE IF c1.state = "congestion_avoidance"
        THEN [c1 EXCEPT !.cwnd = RAdd(@, RDiv(RInt(1), @)),
                        !.duplicate_acks = 0]
        ELSE IF c1.state = "fast_recovery"
        THEN [c1 EXCEPT !.cwnd = c1.ssthresh,
                        !.state = "congestion_avoidance"]
        ELSE c1

\* on_ack_received leaving fast_recovery with the inflated window
RenoOnAckKeepsInflation(c) ==
    LET c1 == [c EXCEPT !.packets_acked = @ + 1]
    IN  IF c1.state = "slow_start"
        THEN LET c2 == [c1 EXCEPT !.cwnd = RAdd(@, RInt(1)),
                                  !.duplicate_acks = 0]
             IN  IF RLe(c2.ssthresh, c2.cwnd)
                 THEN [c2 EXCEPT !.state = "congestion_avoidance"]
                 ELSE c2
        ELSE IF c1.state = "congestion_avoidance"
        THEN [c1 EXCEPT !.cwnd = RAdd(@, RDiv(RInt(1), @)),
                        !.duplicate_acks = 0]
        ELSE IF c1.state = "fast_recovery"
        THEN [c1 EXCEPT !.state = "congestion_avoidance",
                        !.duplicate_acks = 0]
        ELSE c1

RenoOnAck(c) ==
    LET c1 == [c EXCEPT !.packets_acked = @ + 1]
    IN  IF c1.state = "slow_start"
        THEN LET c2 == [c1 EXCEPT !.cwnd = RAdd(@, RInt(1)),
                                  !.duplicate_acks = 0]
             IN  IF RLe(c2.ssthresh, c2.cwnd)
                 THEN [c2 EXCEPT !.state = "congestion_avoidance"]
                 ELSE c2
        ELSE IF c1.state = "congestion_avoidance"
        THEN [c1 EXCEPT !.cwnd = RAdd(@, RDiv(RInt(1), @)),
                        !.duplicate_acks = 0]
        ELSE IF c1.state = "fast_recovery"
        THEN [c1 EXCEPT !.cwnd = c1.ssthresh,
                        !.state = "congestion_avoidance",
                        !.duplicate_acks = 0]
        ELSE c1

\* on_timeout halving the threshold with no floor of 2
RenoOnTimeoutHalves(c) ==
    [c EXCEPT !.ssthresh = RDiv(c.cwnd, RInt(2)),
              !.cwnd = RInt(1),
              !.state = "slow_start",
              !.duplicate_acks = 0]

RenoOnTimeout(c) ==
    [c EXCEPT !.ssthresh = RMax(RDiv(c.cwnd, RInt(2)), RInt(2)),
              !.cwnd = RInt(1),
              !.state = "slow_start",
              !.duplicate_acks = 0]

\* on_duplicate_ack setting the window to the threshold at the retransmit
RenoOnDuplicateAckNoInflation(c) ==
    LET c1 == [c EXCEPT !.duplicate_acks = @ + 1]
    IN  IF c1.duplicate_acks = 3
        THEN LET st == RMax(RDiv(c1.cwnd, RInt(2)), RInt(2))
             IN  [c1 EXCEPT !.ssthresh = st,
                            !.cwnd = st,
                            !.state = "fast_recovery"]
        ELSE IF c1.state = "fast_recovery"
        THEN [c1 EXCEPT !.cwnd = RAdd(@, RInt(1))]
        ELSE c1

\* on_duplicate_ack retransmitting at the second duplicate
RenoOnDuplicateAckAtTwo(c) ==
    LET c1 == [c EXCEPT !.duplicate_acks = @ + 1]
    IN  IF c1.duplicate_acks = 2
        THEN LET st == RMax(RDiv(c1.cwnd, RInt(2)), RInt(2))
             IN  [c1 EXCEPT !.ssthresh = st,
                            !.cwnd = RAdd(st, RInt(3)),
                            !.state = "fast_recovery"]
        ELSE IF c1.state = "fast_recovery"
        THEN [c1 EXCEPT !.cwnd = RAdd(@, RInt(1))]
        ELSE c1

\* on_duplicate_ack retransmitting at every duplicate from the third on
RenoOnDuplicateAckFromThree(c) ==
    LET c1 == [c EXCEPT !.duplicate_acks = @ + 1]
    IN  IF c1.duplicate_acks >= 3
        THEN LET st == RMax(RDiv(c1.cwnd, RInt(2)), RInt(2))
             IN  [c1 EXCEPT !.ssthresh = st,
                            !.cwnd = RAdd(st, RInt(3)),
                            !.state = "fast_recovery"]
        ELSE IF c1.state = "fast_recovery"
        THEN [c1 EXCEPT !.cwnd = RAdd(@, RInt(1))]
        ELSE c1

RenoOnDuplicateAck(c) ==
    LET c1 == [c EXCEPT !.duplicate_acks = @ + 1]
    IN  IF c1.duplicate_acks = 3
        THEN LET st == RMax(RDiv(c1.cwnd, RInt(2)), RInt(2))
             IN  [c1 EXCEPT !.ssthresh = st,
                            !.cwnd = RAdd(st, RInt(3)),
                            !.state = "fast_recovery"]
        ELSE IF c1.state = "fast_recovery"
        THEN [c1 EXCEPT !.cwnd = RAdd(@, RInt(1))]
        ELSE c1

\* dynamic dispatch on the instance's class
OnAckReceived(c) ==
    IF c.algorithm = "Tahoe" THEN TahoeOnAck(c) ELSE RenoOnAck(c)
OnTimeout(c) ==
    IF c.algorithm = "Tahoe" THEN TahoeOnTimeout(c) ELSE RenoOnTimeout(c)
OnDuplicateAck(c) ==
    IF c.algorithm = "Tahoe" THEN TahoeOnDuplicateAck(c)
    ELSE RenoOnDuplicateAck(c)

-----------------------------------------------------------------------------
(* NetworkNode and the state of CloudNetworkSimulator                      *)

\* most NetworkNode objects created in one run of the model
MaxObjs == 3
\* most nodes add_node puts in one topology
MaxNodes == 3
\* the run of the model ends when time.time() passes this many milliseconds
MaxTime == 2600
\* most timer callbacks that run in one run of the model
MaxFires == 3
\* most commands the user gives in one run of the model
MaxCommands == 3
\* most commands of a run that only starts and stops the simulation, most
\* timer callbacks that run in it, and most of both together
MaxToggles == 7
MaxBurstFires == 3
MaxBurstCalls == 8
\* how long the user waits in one go while nothing is scheduled
IdleStep == 2100

\* node.latency = random.randint(5, 50): the values the path finder's
\* topologies draw from, and the one add_node draws in a simulator run
Latencies == {5, 12}
AddLatencies == {12}

\* float('infinity')
Infinity == 1000000

\* node.timeout_threshold, in milliseconds
TimeoutThreshold == 2000

\* tcp_control = None
NoControl == [algorithm |-> "None"]

\* NetworkNode.__init__ at time t
NewNode(lat, t) ==
    [latency |-> lat, connections |-> <<>>, congestion |-> RInt(0),
     tcp_control |-> NoControl, packet_loss_probability |-> RInt(0),
     last_ack_time |-> t, packets_in_flight |-> 0]

\* the routing_stats dictionary as __init__ and reset_network build it
NewStats ==
    [total_packets |-> 0, avg_hop_count |-> RInt(0), min_hops |-> Infinity,
     max_hops |-> 0, path_history |-> <<>>]

NewSeries ==
    [time_stamps |-> <<>>, latency_history |-> <<>>,
     throughput_history |-> <<>>, performance_start_time |-> 0]

NoRoute == [path |-> <<>>, latency |-> Infinity]

\* no callback has run and no command was given; the run may see mf
\* callbacks and mc commands, mt of both together
NoCalls(mf, mc, mt) ==
    [fires |-> 0, commands |-> 0, maxFires |-> mf, maxCommands |-> mc,
     maxCalls |-> mt]
NoOp == [op |-> "none"]

\* the simulator's state as one record, so that handlers compose
World ==
    [nodes |-> nodes, links |-> links, nd |-> nd, selected |-> selected,
     packets |-> packets, running |-> running, load |-> load, rate |-> rate,
     algorithm |-> algorithm, stats |-> stats, series |-> series,
     timers |-> timers, now |-> now]

Commit(w) ==
    /\ nodes' = w.nodes
    /\ links' = w.links
    /\ nd' = w.nd
    /\ selected' = w.selected
    /\ packets' = w.packets
    /\ running' = w.running
    /\ load' = w.load
    /\ rate' = w.rate
    /\ algorithm' = w.algorithm
    /\ stats' = w.stats
    /\ series' = w.series
    /\ timers' = w.timers
    /\ now' = w.now

\* CloudNetworkSimulator.__init__
NewWorld ==
    [nodes |-> <<>>, links |-> <<>>, nd |-> <<>>, selected |-> 0,
     packets |-> <<>>, running |-> FALSE, load |-> "medium", rate |-> 1000,
     algorithm |-> "Reno", stats |-> NewStats, series |-> NewSeries,
     timers |-> <<>>, now |-> 0]

Range(s) == {s[i] : i \in 1..Len(s)}

\* the last element of a sequence
Last(s) == s[Len(s)]

\* the elements of sequence s that satisfy Keep, in order
RECURSIVE SelectIdx(_, _, _)
SelectIdx(s, i, drop) ==
    IF i > Len(s) THEN <<>>
    ELSE (IF i = drop THEN <<>> ELSE <<s[i]>>) \o SelectIdx(s, i + 1, drop)

RemoveAt(s, i) == SelectIdx(s, 1, i)

-----------------------------------------------------------------------------
(* Topology commands                                                       *)

\* add_node: a node with a fresh control of the selected algorithm
AddNodeW(w, lat) ==
    LET id == Len(w.nd) + 1
        n  == [NewNode(lat, w.now) EXCEPT
                  !.tcp_control = NewControl(w.algorithm)]
    IN  [w EXCEPT !.nd = Append(@, n), !.nodes = Append(@, id)]

\* on_canvas_click connecting without looking at the existing connections
ClickConnectsAgain(w, n) ==
    IF w.selected = 0
    THEN [w EXCEPT !.selected = n]
    ELSE IF w.selected # n
    THEN [w EXCEPT
            !.nd[w.selected].connections = Append(@, n),
            !.nd[n].connections = Append(@, w.selected),
            !.links = Append(@, <<w.selected, n>>),
            !.selected = 0]
    ELSE w

\* on_canvas_click in connection mode on node n
ClickW(w, n) ==
    IF w.selected = 0
    THEN [w EXCEPT !.selected = n]
    ELSE IF w.selected # n
    THEN IF n \notin Range(w.nd[w.selected].connections)
         THEN [w EXCEPT
                 !.nd[w.selected].connections = Append(@, n),
                 !.nd[n].connections = Append(@, w.selected),
                 !.links = Append(@, <<w.selected, n>>),
                 !.selected = 0]
         ELSE [w EXCEPT !.selected = 0]
    ELSE w

\* set_traffic_load
SetTrafficLoadW(w, level) ==
    [w EXCEPT !.load = level,
              !.rate = IF level = "light" THEN 2000
                       ELSE IF level = "medium" THEN 1000 ELSE 300]

\* set_congestion_algorithm leaving the controls of the nodes as they are
SetCongestionAlgorithmKeepsControls(w, alg) == [w EXCEPT !.algorithm = alg]

\* set_congestion_algorithm: every node of the topology gets a new control
SetCongestionAlgorithmW(w, alg) ==
    [w EXCEPT !.algorithm = alg,
              !.nd = [i \in DOMAIN w.nd |->
                        IF i \in Range(w.nodes)
                        THEN [w.nd[i] EXCEPT !.tcp_control = NewControl(alg)]
                        ELSE w.nd[i]]]

\* reset_network cancelling every scheduled callback as well
ResetNetworkCancelsCallbacks(w) ==
    [w EXCEPT !.nodes = <<>>, !.links = <<>>, !.packets = <<>>,
              !.running = FALSE,
              !.series = [NewSeries EXCEPT !.performance_start_time = w.now],
              !.stats = NewStats,
              !.timers = <<>>]

\* reset_network without the new routing_stats dictionary
ResetNetworkKeepsStats(w) ==
    [w EXCEPT !.nodes = <<>>, !.links = <<>>, !.packets = <<>>,
              !.running = FALSE,
              !.series = [NewSeries EXCEPT !.performance_start_time = w.now]]

\* reset_network
ResetNetworkW(w) ==
    [w EXCEPT !.nodes = <<>>, !.links = <<>>, !.packets = <<>>,
              !.running = FALSE,
              !.series = [NewSeries EXCEPT !.performance_start_time = w.now],
              !.stats = NewStats]

-----------------------------------------------------------------------------
(* Router: dijkstra_shortest_path                                          *)

SetMin(S) == CHOOSE x \in S : \A y \in S : x <= y

\* the path rebuilt from the previous map: follow it from cur back to None
RECURSIVE PathBack(_, _)
PathBack(prv, cur) ==
    IF cur = 0 THEN <<>> ELSE Append(PathBack(prv, prv[cur]), cur)

\* the loop without the break on an infinite distance
RECURSIVE DijkstraLoopNoBreak(_, _, _, _, _)
DijkstraLoopNoBreak(w, dst, dist, prv, unv) ==
    IF unv = {} THEN {NoRoute}
    ELSE LET m == SetMin({dist[n] : n \in unv})
         IN  UNION {
                 IF cur = dst
                 THEN {[path |-> PathBack(prv, cur), latency |-> dist[dst]]}
                 ELSE LET unv2 == unv \ {cur}
                          alt  == dist[cur] + w.nd[cur].latency
                          upd  == {n \in Range(w.nd[cur].connections) \cap unv2 :
                                      alt < dist[n]}
                          dist2 == [n \in DOMAIN dist |->
                                      IF n \in upd THEN alt ELSE dist[n]]
                          prv2  == [n \in DOMAIN prv |->
                                      IF n \in upd THEN cur ELSE prv[n]]
                      IN  DijkstraLoopNoBreak(w, dst, dist2, prv2, unv2)
                 : cur \in {n \in unv : dist[n] = m}}

\* the loop counting hops: every link weighs 1
RECURSIVE DijkstraLoopHops(_, _, _, _, _)
DijkstraLoopHops(w, dst, dist, prv, unv) ==
    IF unv = {} THEN {NoRoute}
    ELSE LET m == SetMin({dist[n] : n \in unv})
         IN  IF m = Infinity THEN {NoRoute}
             ELSE UNION {
                 IF cur = dst
                 THEN {[path |-> PathBack(prv, cur), latency |-> dist[dst]]}
                 ELSE LET unv2 == unv \ {cur}
                          alt  == dist[cur] + 1
                          upd  == {n \in Range(w.nd[cur].connections) \cap unv2 :
                                      alt < dist[n]}
                          dist2 == [n \in DOMAIN dist |->
                                      IF n \in upd THEN alt ELSE dist[n]]
                          prv2  == [n \in DOMAIN prv |->
                                      IF n \in upd THEN cur ELSE prv[n]]
                      IN  DijkstraLoopHops(w, dst, dist2, prv2, unv2)
                 : cur \in {n \in unv : dist[n] = m}}

\* the loop charging the latency of the node entered, not of the node left
RECURSIVE DijkstraLoopEntering(_, _, _, _, _)
DijkstraLoopEntering(w, dst, dist, prv, unv) ==
    IF unv = {} THEN {NoRoute}
    ELSE LET m == SetMin({dist[n] : n \in unv})
         IN  IF m = Infinity THEN {NoRoute}
             ELSE UNION {
                 IF cur = dst
                 THEN {[path |-> PathBack(prv, cur), latency |-> dist[dst]]}
                 ELSE LET unv2 == unv \ {cur}
                          nbrs == Range(w.nd[cur].connections) \cap unv2
                          upd  == {n \in nbrs :
                                      dist[cur] + w.nd[n].latency < dist[n]}
                          dist2 == [n \in DOMAIN dist |->
                                      IF n \in upd
                                      THEN dist[cur] + w.nd[n].latency
                                      ELSE dist[n]]
                          prv2  == [n \in DOMAIN prv |->
                                      IF n \in upd THEN cur ELSE prv[n]]
                      IN  DijkstraLoopEntering(w, dst, dist2, prv2, unv2)
                 : cur \in {n \in unv : dist[n] = m}}

\* The while loop of dijkstra_shortest_path from the state (dist, prv, unv).
\* min() over a set of nodes with equal distances returns whichever the set
\* iterates first, so every minimal node is a possible choice: the result is
\* the set of (path, total latency) pairs the call can return.
RECURSIVE DijkstraLoop(_, _, _, _, _)
DijkstraLoop(w, dst, dist, prv, unv) ==
    IF unv = {} THEN {NoRoute}
    ELSE LET m == SetMin({dist[n] : n \in unv})
         IN  IF m = Infinity THEN {NoRoute}
             ELSE UNION {
                 IF cur = dst
                 THEN {[path |-> PathBack(prv, cur), latency |-> dist[dst]]}
                 ELSE LET unv2 == unv \ {cur}
                          alt  == dist[cur] + w.nd[cur].latency
                          upd  == {n \in Range(w.nd[cur].connections) \cap unv2 :
                                      alt < dist[n]}
                          dist2 == [n \in DOMAIN dist |->
                                      IF n \in upd THEN alt ELSE dist[n]]
                          prv2  == [n \in DOMAIN prv |->
                                      IF n \in upd THEN cur ELSE prv[n]]
                      IN  DijkstraLoop(w, dst, dist2, prv2, unv2)
                 : cur \in {n \in unv : dist[n] = m}}

DijkstraShortestPath(w, src, dst) ==
    LET all  == Range(w.nodes) \cup {src}
        dist == [n \in all |-> IF n = src THEN 0 ELSE Infinity]
        prv  == [n \in all |-> 0]
    IN  DijkstraLoop(w, dst, dist, prv, Range(w.nodes))

-----------------------------------------------------------------------------
(* Generated topologies                                                    *)

\* create_star_topology: num_pcs
NumPcs == 6

\* create_star_topology after the reset generate_topology starts with: the
\* router ROUTER1 first, then PC1..PC6, each linked to the router; lats are
\* the latencies the seven constructors draw
RECURSIVE StarAddPcs(_, _, _, _)
StarAddPcs(w, router, lats, i) ==
    IF i > NumPcs THEN w
    ELSE LET id == Len(w.nd) + 1
             w1 == [w EXCEPT
                      !.nd = Append(@, NewNode(lats[i + 1], w.now)),
                      !.nodes = Append(@, id)]
             w2 == [w1 EXCEPT
                      !.nd[router].connections = Append(@, id),
                      !.nd[id].connections = Append(@, router),
                      !.links = Append(@, <<router, id>>)]
         IN  StarAddPcs(w2, router, lats, i + 1)

CreateStarTopologyW(w, lats) ==
    LET router == Len(w.nd) + 1
        w1 == [w EXCEPT !.nd = Append(@, NewNode(lats[1], w.now)),
                        !.nodes = Append(@, router)]
        w2 == StarAddPcs(w1, router, lats, 1)
    IN  [w2 EXCEPT !.nd = [i \in DOMAIN w2.nd |->
                             IF i \in Range(w2.nodes)
                             THEN [w2.nd[i] EXCEPT
                                     !.tcp_control = NewControl(w2.algorithm)]
                             ELSE w2.nd[i]]]

\* generate_topology("star")
GenerateStarW(w, lats) == CreateStarTopologyW(ResetNetworkW(w), lats)

-----------------------------------------------------------------------------
(* Flow simulator: the handlers                                            *)

\* the loss probability with the factor 0.3 in place of 0.03
LossProbabilityTenfold(c) == RMin(Rat(3, 10), RMul(c, Rat(3, 10)))

\* min(0.3, node.congestion * 0.03)
LossProbability(c) == RMin(Rat(3, 10), RMul(c, Rat(3, 100)))

\* track_performance averaging the old mean and the new hop count
TrackPerformanceHalving(w, latency, hops) ==
    LET se  == w.series
        t   == w.now - se.performance_start_time
        ts  == Append(se.time_stamps, t)
        lh  == Append(se.latency_history, latency)
        th0 == se.throughput_history
        thr == IF Len(ts) > 1
               THEN LET dt == ts[Len(ts)] - ts[Len(ts) - 1]
                    IN  IF dt > 0 THEN Rat(12, dt)
                        ELSE IF Len(th0) > 0 THEN th0[Len(th0)] ELSE RInt(0)
               ELSE RInt(0)
        th  == Append(th0, thr)
        st  == w.stats
        tot == st.total_packets + 1
        hop == hops - 1
        avg == RDiv(RAdd(st.avg_hop_count, RInt(hop)), RInt(2))
        ph  == Append(st.path_history,
                      [hops |-> hop, latency |-> latency, time |-> t])
        cut == Len(ts) > 50
    IN  [w EXCEPT
          !.stats = [total_packets |-> tot,
                     avg_hop_count |-> avg,
                     min_hops |-> IF hop < st.min_hops THEN hop ELSE st.min_hops,
                     max_hops |-> IF hop > st.max_hops THEN hop ELSE st.max_hops,
                     path_history |-> IF Len(ph) > 100 THEN Tail(ph) ELSE ph],
          !.series = [se EXCEPT
                     !.time_stamps = IF cut THEN Tail(ts) ELSE ts,
                     !.latency_history = IF cut THEN Tail(lh) ELSE lh,
                     !.throughput_history = IF cut THEN Tail(th) ELSE th]]

\* track_performance dropping the newest entry of a full path history
TrackPerformanceDropsNewest(w, latency, hops) ==
    LET se  == w.series
        t   == w.now - se.performance_start_time
        ts  == Append(se.time_stamps, t)
        lh  == Append(se.latency_history, latency)
        th0 == se.throughput_history
        thr == IF Len(ts) > 1
               THEN LET dt == ts[Len(ts)] - ts[Len(ts) - 1]
                    IN  IF dt > 0 THEN Rat(12, dt)
                        ELSE IF Len(th0) > 0 THEN th0[Len(th0)] ELSE RInt(0)
               ELSE RInt(0)
        th  == Append(th0, thr)
        st  == w.stats
        tot == st.total_packets + 1
        hop == hops - 1
        avg == RDiv(RAdd(RMul(st.avg_hop_count, RInt(tot - 1)), RInt(hop)),
                    RInt(tot))
        ph  == Append(st.path_history,
                      [hops |-> hop, latency |-> latency, time |-> t])
        cut == Len(ts) > 50
    IN  [w EXCEPT
          !.stats = [total_packets |-> tot,
                     avg_hop_count |-> avg,
                     min_hops |-> IF hop < st.min_hops THEN hop ELSE st.min_hops,
                     max_hops |-> IF hop > st.max_hops THEN hop ELSE st.max_hops,
                     path_history |-> IF Len(ph) > 100
                                      THEN SubSeq(ph, 1, 100) ELSE ph],
          !.series = [se EXCEPT
                     !.time_stamps = IF cut THEN Tail(ts) ELSE ts,
                     !.latency_history = IF cut THEN Tail(lh) ELSE lh,
                     !.throughput_history = IF cut THEN Tail(th) ELSE th]]

\* track_performance(latency, hops)
TrackPerformanceW(w, latency, hops) ==
    LET se  == w.series
        t   == w.now - se.performance_start_time
        ts  == Append(se.time_stamps, t)
        lh  == Append(se.latency_history, latency)
        th0 == se.throughput_history
        thr == IF Len(ts) > 1
               THEN LET dt == ts[Len(ts)] - ts[Len(ts) - 1]
                    IN  IF dt > 0 THEN Rat(12, dt)
                        ELSE IF Len(th0) > 0 THEN th0[Len(th0)] ELSE RInt(0)
               ELSE RInt(0)
        th  == Append(th0, thr)
        st  == w.stats
        tot == st.total_packets + 1
        hop == hops - 1
        avg == RDiv(RAdd(RMul(st.avg_hop_count, RInt(tot - 1)), RInt(hop)),
                    RInt(tot))
        ph  == Append(st.path_history,
                      [hops |-> hop, latency |-> latency, time |-> t])
        cut == Len(ts) > 50
    IN  [w EXCEPT
          !.stats = [total_packets |-> tot,
                     avg_hop_count |-> avg,
                     min_hops |-> IF hop < st.min_hops THEN hop ELSE st.min_hops,
                     max_hops |-> IF hop > st.max_hops THEN hop ELSE st.max_hops,
                     path_history |-> IF Len(ph) > 100 THEN Tail(ph) ELSE ph],
          !.series = [se EXCEPT
                     !.time_stamps = IF cut THEN Tail(ts) ELSE ts,
                     !.latency_history = IF cut THEN Tail(lh) ELSE lh,
                     !.throughput_history = IF cut THEN Tail(th) ELSE th]]

\* check_timeouts that clears the flight but leaves the control as it is
CheckTimeoutsKeepsControl(w) ==
    [w EXCEPT !.nd = [i \in DOMAIN w.nd |->
        LET n == w.nd[i]
        IN  IF /\ i \in Range(w.nodes)
               /\ n.tcp_control # NoControl
               /\ n.packets_in_flight > 0
               /\ w.now - n.last_ack_time > TimeoutThreshold
            THEN [n EXCEPT
                    !.packets_in_flight = 0,
                    !.last_ack_time = w.now,
                    !.congestion = RMin(RInt(10), RAdd(@, RInt(2)))]
            ELSE n]]

\* check_timeouts that leaves last_ack_time as it is
CheckTimeoutsKeepsClock(w) ==
    [w EXCEPT !.nd = [i \in DOMAIN w.nd |->
        LET n == w.nd[i]
        IN  IF /\ i \in Range(w.nodes)
               /\ n.tcp_control # NoControl
               /\ n.packets_in_flight > 0
               /\ w.now - n.last_ack_time > TimeoutThreshold
            THEN [n EXCEPT
                    !.tcp_control = OnTimeout(@),
                    !.packets_in_flight = 0,
                    !.congestion = RMin(RInt(10), RAdd(@, RInt(2)))]
            ELSE n]]

\* check_timeouts
CheckTimeoutsW(w) ==
    [w EXCEPT !.nd = [i \in DOMAIN w.nd |->
        LET n == w.nd[i]
        IN  IF /\ i \in Range(w.nodes)
               /\ n.tcp_control # NoControl
               /\ n.packets_in_flight > 0
               /\ w.now - n.last_ack_time > TimeoutThreshold
            THEN [n EXCEPT
                    !.tcp_control = OnTimeout(@),
                    !.packets_in_flight = 0,
                    !.last_ack_time = w.now,
                    !.congestion = RMin(RInt(10), RAdd(@, RInt(2)))]
            ELSE n]]

\* the nodes check_timeouts finds timed out in w
TimedOut(w) ==
    {i \in Range(w.nodes) :
        /\ w.nd[i].tcp_control # NoControl
        /\ w.nd[i].packets_in_flight > 0
        /\ w.now - w.nd[i].last_ack_time > TimeoutThreshold}

\* the check without the window: any node with a control may send
CanSendAlways(w, src) == w.nd[src].tcp_control # NoControl

\* the congestion window check of start_packet_generation
CanSend(w, src) ==
    /\ w.nd[src].tcp_control # NoControl
    /\ w.nd[src].packets_in_flight < GetWindowSize(w.nd[src].tcp_control)

\* The random draws of one start_packet_generation call: the source, the
\* destination, the route dijkstra returns (ties) and the position on the
\* path at which random.random() first falls under the loss probability
\* (0: at none).  A draw can fall under a probability only if it is > 0.
LossPositions(w, path) ==
    {0} \cup {k \in 1..Len(path) :
                RLt(RInt(0), LossProbability(w.nd[path[k]].congestion))}

GenChoices(w) ==
    IF ~(w.running /\ Len(w.nodes) > 1)
    THEN {[source |-> 0, destination |-> 0, route |-> NoRoute, lossAt |-> 0]}
    ELSE UNION {
        IF CanSend(w, p[1])
        THEN UNION {
               {[source |-> p[1], destination |-> p[2], route |-> r,
                 lossAt |-> k] : k \in LossPositions(w, r.path)}
               : r \in DijkstraShortestPath(w, p[1], p[2])}
        ELSE {[source |-> p[1], destination |-> p[2], route |-> NoRoute,
               lossAt |-> 0]}
        : p \in {q \in Range(w.nodes) \X Range(w.nodes) : q[1] # q[2]}}

\* the path nodes sampled for loss: up to and including the lossy one
Sampled(ch) ==
    IF ch.lossAt = 0 THEN Range(ch.route.path)
    ELSE {ch.route.path[k] : k \in 1..ch.lossAt}

\* the loss branch raising the congestion of the sampled nodes only
LossRaisesSampled(w, ch) ==
    LET src  == ch.source
        c1   == OnDuplicateAck(w.nd[src].tcp_control)
        f    == IF c1.state = "slow_start" THEN Rat(1, 2)
                ELSE IF c1.state = "fast_recovery" THEN Rat(3, 2)
                ELSE RInt(1)
    IN  [w EXCEPT !.nd = [i \in DOMAIN w.nd |->
            LET n0 == IF i = src THEN [w.nd[i] EXCEPT !.tcp_control = c1]
                      ELSE w.nd[i]
            IN  IF i \in Sampled(ch)
                THEN [n0 EXCEPT !.congestion =
                        RMin(RInt(10), RAdd(@, RMul(f, Rat(1, 2))))]
                ELSE n0]]

\* the loss branch
LossW(w, ch) ==
    LET src  == ch.source
        c1   == OnDuplicateAck(w.nd[src].tcp_control)
        f    == IF c1.state = "slow_start" THEN Rat(1, 2)
                ELSE IF c1.state = "fast_recovery" THEN Rat(3, 2)
                ELSE RInt(1)
        path == Range(ch.route.path)
    IN  [w EXCEPT !.nd = [i \in DOMAIN w.nd |->
            LET n0 == IF i = src THEN [w.nd[i] EXCEPT !.tcp_control = c1]
                      ELSE w.nd[i]
            IN  IF i \in path
                THEN [n0 EXCEPT !.congestion =
                        RMin(RInt(10), RAdd(@, RMul(f, Rat(1, 2))))]
                ELSE n0]]

\* the successful send adding to the congestion without the cap of 10
SendUncapped(w, ch) ==
    LET src  == ch.source
        ctl  == w.nd[src].tcp_control
        pkt  == [source |-> src, destination |-> ch.destination,
                 path |-> ch.route.path, total_latency |-> ch.route.latency,
                 cwnd |-> GetWindowSize(ctl), algorithm |-> ctl.algorithm]
        c1   == [ctl EXCEPT !.packets_sent = @ + 1]
        win  == GetWindowSize(c1)
        f0   == Rat(1, IF 1 > win THEN 1 ELSE win)
        f    == IF w.load = "light" THEN RMul(f0, Rat(1, 2))
                ELSE IF w.load = "heavy" THEN RMul(f0, RInt(2))
                ELSE f0
        path == Range(ch.route.path)
        ack  == [kind |-> "ack", due |-> w.now + ch.route.latency,
                 source |-> src, path |-> ch.route.path]
    IN  [w EXCEPT
          !.packets = Append(@, pkt),
          !.timers = Append(@, ack),
          !.nd = [i \in DOMAIN w.nd |->
            LET n0 == IF i = src
                      THEN [w.nd[i] EXCEPT !.tcp_control = c1,
                                           !.packets_in_flight = @ + 1]
                      ELSE w.nd[i]
            IN  IF i \in path
                THEN [n0 EXCEPT !.congestion = RAdd(@, f)]
                ELSE n0]]

\* the successful send raising the congestion by 1 / window_size whatever
\* the traffic load
SendIgnoresLoad(w, ch) ==
    LET src  == ch.source
        ctl  == w.nd[src].tcp_control
        pkt  == [source |-> src, destination |-> ch.destination,
                 path |-> ch.route.path, total_latency |-> ch.route.latency,
                 cwnd |-> GetWindowSize(ctl), algorithm |-> ctl.algorithm]
        c1   == [ctl EXCEPT !.packets_sent = @ + 1]
        win  == GetWindowSize(c1)
        f0   == Rat(1, IF 1 > win THEN 1 ELSE win)
        f    == f0
        path == Range(ch.route.path)
        ack  == [kind |-> "ack", due |-> w.now + ch.route.latency,
                 source |-> src, path |-> ch.route.path]
    IN  [w EXCEPT
          !.packets = Append(@, pkt),
          !.timers = Append(@, ack),
          !.nd = [i \in DOMAIN w.nd |->
            LET n0 == IF i = src
                      THEN [w.nd[i] EXCEPT !.tcp_control = c1,
                                           !.packets_in_flight = @ + 1]
                      ELSE w.nd[i]
            IN  IF i \in path
                THEN [n0 EXCEPT !.congestion = RMin(RInt(10), RAdd(@, f))]
                ELSE n0]]

\* the successful send scheduling no Ack
SendWithoutAck(w, ch) ==
    LET src  == ch.source
        ctl  == w.nd[src].tcp_control
        pkt  == [source |-> src, destination |-> ch.destination,
                 path |-> ch.route.path, total_latency |-> ch.route.latency,
                 cwnd |-> GetWindowSize(ctl), algorithm |-> ctl.algorithm]
        c1   == [ctl EXCEPT !.packets_sent = @ + 1]
        win  == GetWindowSize(c1)
        f0   == Rat(1, IF 1 > win THEN 1 ELSE win)
        f    == IF w.load = "light" THEN RMul(f0, Rat(1, 2))
                ELSE IF w.load = "heavy" THEN RMul(f0, RInt(2))
                ELSE f0
        path == Range(ch.route.path)
    IN  [w EXCEPT
          !.packets = Append(@, pkt),
          !.nd = [i \in DOMAIN w.nd |->
            LET n0 == IF i = src
                      THEN [w.nd[i] EXCEPT !.tcp_control = c1,
                                           !.packets_in_flight = @ + 1]
                      ELSE w.nd[i]
            IN  IF i \in path
                THEN [n0 EXCEPT !.congestion = RMin(RInt(10), RAdd(@, f))]
                ELSE n0]]

\* the successful send
SendW(w, ch) ==
    LET src  == ch.source
        ctl  == w.nd[src].tcp_control
        pkt  == [source |-> src, destination |-> ch.destination,
                 path |-> ch.route.path, total_latency |-> ch.route.latency,
                 cwnd |-> GetWindowSize(ctl), algorithm |-> ctl.algorithm]
        c1   == [ctl EXCEPT !.packets_sent = @ + 1]
        win  == GetWindowSize(c1)
        f0   == Rat(1, IF 1 > win THEN 1 ELSE win)
        f    == IF w.load = "light" THEN RMul(f0, Rat(1, 2))
                ELSE IF w.load = "heavy" THEN RMul(f0, RInt(2))
                ELSE f0
        path == Range(ch.route.path)
        ack  == [kind |-> "ack", due |-> w.now + ch.route.latency,
                 source |-> src, path |-> ch.route.path]
    IN  [w EXCEPT
          !.packets = Append(@, pkt),
          !.timers = Append(@, ack),
          !.nd = [i \in DOMAIN w.nd |->
            LET n0 == IF i = src
                      THEN [w.nd[i] EXCEPT !.tcp_control = c1,
                                           !.packets_in_flight = @ + 1]
                      ELSE w.nd[i]
            IN  IF i \in path
                THEN [n0 EXCEPT !.congestion = RMin(RInt(10), RAdd(@, f))]
                ELSE n0]]

\* start_packet_generation recording only the packets it sends
StartPacketGenerationTracksSends(w, ch) ==
    IF ~(w.running /\ Len(w.nodes) > 1) THEN w
    ELSE LET wa == IF CanSend(w, ch.source) /\ ch.route.path # <<>>
                   THEN LET w1 == [w EXCEPT !.nd = [i \in DOMAIN w.nd |->
                                     IF i \in Sampled(ch)
                                     THEN [w.nd[i] EXCEPT
                                            !.packet_loss_probability =
                                              LossProbability(w.nd[i].congestion)]
                                     ELSE w.nd[i]]]
                            w2 == IF ch.lossAt > 0 THEN LossW(w1, ch)
                                  ELSE SendW(w1, ch)
                        IN  IF ch.lossAt > 0 THEN w2
                            ELSE TrackPerformanceW(w2, ch.route.latency,
                                                   Len(ch.route.path))
                   ELSE w
             wb == CheckTimeoutsW(wa)
         IN  [wb EXCEPT !.timers =
                Append(@, [kind |-> "generate", due |-> wb.now + wb.rate,
                           source |-> 0, path |-> <<>>])]

\* start_packet_generation treating a missing path as a lost packet
StartPacketGenerationNoPathIsLoss(w, ch) ==
    IF ~(w.running /\ Len(w.nodes) > 1) THEN w
    ELSE LET wa == IF CanSend(w, ch.source) /\ ch.route.path # <<>>
                   THEN LET w1 == [w EXCEPT !.nd = [i \in DOMAIN w.nd |->
                                     IF i \in Sampled(ch)
                                     THEN [w.nd[i] EXCEPT
                                            !.packet_loss_probability =
                                              LossProbability(w.nd[i].congestion)]
                                     ELSE w.nd[i]]]
                            w2 == IF ch.lossAt > 0 THEN LossW(w1, ch)
                                  ELSE SendW(w1, ch)
                        IN  TrackPerformanceW(w2, ch.route.latency,
                                              Len(ch.route.path))
                   ELSE IF CanSend(w, ch.source)
                   THEN [w EXCEPT !.nd[ch.source].tcp_control =
                                      OnDuplicateAck(@)]
                   ELSE w
             wb == CheckTimeoutsW(wa)
         IN  [wb EXCEPT !.timers =
                Append(@, [kind |-> "generate", due |-> wb.now + wb.rate,
                           source |-> 0, path |-> <<>>])]

\* start_packet_generation with the draws ch
StartPacketGenerationW(w, ch) ==
    IF ~(w.running /\ Len(w.nodes) > 1) THEN w
    ELSE LET wa == IF CanSend(w, ch.source) /\ ch.route.path # <<>>
                   THEN LET w1 == [w EXCEPT !.nd = [i \in DOMAIN w.nd |->
                                     IF i \in Sampled(ch)
                                     THEN [w.nd[i] EXCEPT
                                            !.packet_loss_probability =
                                              LossProbability(w.nd[i].congestion)]
                                     ELSE w.nd[i]]]
                            w2 == IF ch.lossAt > 0 THEN LossW(w1, ch)
                                  ELSE SendW(w1, ch)
                        IN  TrackPerformanceW(w2, ch.route.latency,
                                              Len(ch.route.path))
                   ELSE w
             wb == CheckTimeoutsW(wa)
         IN  [wb EXCEPT !.timers =
                Append(@, [kind |-> "generate", due |-> wb.now + wb.rate,
                           source |-> 0, path |-> <<>>])]

\* handle_packet_ack counting the acknowledged packet in routing_stats
HandlePacketAckCountsPacket(w, src, path) ==
    IF w.nd[src].tcp_control = NoControl THEN w
    ELSE [w EXCEPT
           !.stats.total_packets = @ + 1,
           !.nd = [i \in DOMAIN w.nd |->
            LET n0 == IF i = src
                      THEN [w.nd[i] EXCEPT
                              !.tcp_control = OnAckReceived(@),
                              !.packets_in_flight =
                                  IF @ - 1 < 0 THEN 0 ELSE @ - 1,
                              !.last_ack_time = w.now]
                      ELSE w.nd[i]
            IN  IF i \in Range(path)
                THEN [n0 EXCEPT !.congestion =
                        RMax(RInt(0), RSub(@, Rat(1, 5)))]
                ELSE n0]]

\* handle_packet_ack counting packets_in_flight down with no floor
HandlePacketAckNoFloor(w, src, path) ==
    IF w.nd[src].tcp_control = NoControl THEN w
    ELSE [w EXCEPT !.nd = [i \in DOMAIN w.nd |->
            LET n0 == IF i = src
                      THEN [w.nd[i] EXCEPT
                              !.tcp_control = OnAckReceived(@),
                              !.packets_in_flight = @ - 1,
                              !.last_ack_time = w.now]
                      ELSE w.nd[i]
            IN  IF i \in Range(path)
                THEN [n0 EXCEPT !.congestion =
                        RMax(RInt(0), RSub(@, Rat(1, 5)))]
                ELSE n0]]

\* handle_packet_ack(source, path)
HandlePacketAckW(w, src, path) ==
    IF w.nd[src].tcp_control = NoControl THEN w
    ELSE [w EXCEPT !.nd = [i \in DOMAIN w.nd |->
            LET n0 == IF i = src
                      THEN [w.nd[i] EXCEPT
                              !.tcp_control = OnAckReceived(@),
                              !.packets_in_flight =
                                  IF @ - 1 < 0 THEN 0 ELSE @ - 1,
                              !.last_ack_time = w.now]
                      ELSE w.nd[i]
            IN  IF i \in Range(path)
                THEN [n0 EXCEPT !.congestion =
                        RMax(RInt(0), RSub(@, Rat(1, 5)))]
                ELSE n0]]

\* decay_congestion without the check of simulation_running
DecayCongestionAlways(w) ==
    LET dr == IF w.load = "heavy" THEN Rat(1, 10) ELSE Rat(1, 5)
         IN  [w EXCEPT
               !.nd = [i \in DOMAIN w.nd |->
                         IF i \in Range(w.nodes) /\ RLt(RInt(0), w.nd[i].congestion)
                         THEN [w.nd[i] EXCEPT !.congestion =
                                 RMax(RInt(0), RSub(@, dr))]
                         ELSE w.nd[i]],
               !.timers = Append(@, [kind |-> "decay", due |-> w.now + 500,
                                     source |-> 0, path |-> <<>>])]

\* decay_congestion taking 0.2 whatever the traffic load
DecayCongestionOneRate(w) ==
    IF ~w.running THEN w
    ELSE LET dr == Rat(1, 5)
         IN  [w EXCEPT
               !.nd = [i \in DOMAIN w.nd |->
                         IF i \in Range(w.nodes) /\ RLt(RInt(0), w.nd[i].congestion)
                         THEN [w.nd[i] EXCEPT !.congestion =
                                 RMax(RInt(0), RSub(@, dr))]
                         ELSE w.nd[i]],
               !.timers = Append(@, [kind |-> "decay", due |-> w.now + 500,
                                     source |-> 0, path |-> <<>>])]

\* decay_congestion
DecayCongestionW(w) ==
    IF ~w.running THEN w
    ELSE LET dr == IF w.load = "heavy" THEN Rat(1, 10) ELSE Rat(1, 5)
         IN  [w EXCEPT
               !.nd = [i \in DOMAIN w.nd |->
                         IF i \in Range(w.nodes) /\ RLt(RInt(0), w.nd[i].congestion)
                         THEN [w.nd[i] EXCEPT !.congestion =
                                 RMax(RInt(0), RSub(@, dr))]
                         ELSE w.nd[i]],
               !.timers = Append(@, [kind |-> "decay", due |-> w.now + 500,
                                     source |-> 0, path |-> <<>>])]

\* toggle_simulation; ch are the draws of the generate call it makes
ToggleSimulationW(w, ch) ==
    LET w1 == [w EXCEPT !.running = ~@]
    IN  IF w1.running
        THEN DecayCongestionW(StartPacketGenerationW(w1, ch))
        ELSE w1

-----------------------------------------------------------------------------
(* Timers: root.after                                                      *)

\* The callback Tk runs next: the earliest due, the earliest registered
\* among those.
NextTimer(w) ==
    CHOOSE i \in 1..Len(w.timers) :
        \A j \in 1..Len(w.timers) :
            \/ w.timers[i].due < w.timers[j].due
            \/ (w.timers[i].due = w.timers[j].due /\ i <= j)

TimerDue(w, kind) ==
    /\ Len(w.timers) > 0
    /\ w.timers[NextTimer(w)].due <= w.now
    /\ w.timers[NextTimer(w)].kind = kind

PopTimer(w) == [w EXCEPT !.timers = RemoveAt(@, NextTimer(w))]

-----------------------------------------------------------------------------
(* The simulator: commands of the user, callbacks of the timers            *)

Loads == {"light", "medium", "heavy"}

\* The runs start either right after construction or with the smallest
\* network that carries traffic, built by the user's commands at time 0:
\* two nodes, with latencies 5 and 12, and the link between them.
PairWorld ==
    ClickW(ClickW(AddNodeW(AddNodeW(NewWorld, 5), 12), 1), 2)

Init ==
    /\ \E w \in {NewWorld, PairWorld} :
          /\ nodes = w.nodes /\ links = w.links /\ nd = w.nd
          /\ selected = w.selected /\ packets = w.packets
          /\ running = w.running /\ load = w.load
          /\ rate = w.rate /\ algorithm = w.algorithm
          /\ stats = w.stats /\ series = w.series
          /\ timers = w.timers /\ now = w.now
    /\ route = NoRoute
    /\ lastOp = NoOp
    /\ calls = NoCalls(MaxFires, MaxCommands, MaxFires + MaxCommands)

AddNode ==
    \E lat \in AddLatencies :
        /\ Len(nd) < MaxObjs
        /\ Len(nodes) < MaxNodes
        /\ Commit(AddNodeW(World, lat))
        /\ lastOp' = [op |-> "add_node"]
        /\ UNCHANGED <<route, calls>>

Click ==
    \E n \in Range(nodes) :
        /\ calls.commands < calls.maxCommands
        /\ calls.fires + calls.commands < calls.maxCalls
        /\ Commit(ClickW(World, n))
        /\ calls' = [calls EXCEPT !.commands = @ + 1]
        /\ lastOp' = [op |-> "on_canvas_click", node |-> n]
        /\ UNCHANGED route

SetTrafficLoad ==
    \E level \in Loads :
        /\ calls.commands < calls.maxCommands
        /\ calls.fires + calls.commands < calls.maxCalls
        /\ Commit(SetTrafficLoadW(World, level))
        /\ calls' = [calls EXCEPT !.commands = @ + 1]
        /\ lastOp' = [op |-> "set_traffic_load"]
        /\ UNCHANGED route

SetCongestionAlgorithm ==
    \E alg \in Algorithms :
        /\ calls.commands < calls.maxCommands
        /\ calls.fires + calls.commands < calls.maxCalls
        /\ Commit(SetCongestionAlgorithmW(World, alg))
        /\ calls' = [calls EXCEPT !.commands = @ + 1]
        /\ lastOp' = [op |-> "set_congestion_algorithm"]
        /\ UNCHANGED route

ResetNetwork ==
    /\ calls.commands < calls.maxCommands
    /\ calls.fires + calls.commands < calls.maxCalls
    /\ Commit(ResetNetworkW(World))
    /\ calls' = [calls EXCEPT !.commands = @ + 1]
    /\ lastOp' = [op |-> "reset_network"]
    /\ UNCHANGED route

\* lastOp keeps the random draws the generate call of the step made
ToggleSimulation ==
    \E ch \in GenChoices([World EXCEPT !.running = ~@]) :
        /\ calls.commands < calls.maxCommands
        /\ calls.fires + calls.commands < calls.maxCalls
        /\ Commit(ToggleSimulationW(World, ch))
        /\ calls' = [calls EXCEPT !.commands = @ + 1]
        /\ lastOp' = [op |-> "toggle_simulation", draw |-> ch]
        /\ UNCHANGED route

FireGenerate ==
    /\ TimerDue(World, "generate")
    /\ calls.fires < calls.maxFires
    /\ calls.fires + calls.commands < calls.maxCalls
    /\ \E ch \in GenChoices(World) :
        /\ Commit(StartPacketGenerationW(PopTimer(World), ch))
        /\ lastOp' = [op |-> "start_packet_generation", draw |-> ch]
    /\ calls' = [calls EXCEPT !.fires = @ + 1]
    /\ UNCHANGED route

FireAck ==
    /\ TimerDue(World, "ack")
    /\ calls.fires < calls.maxFires
    /\ calls.fires + calls.commands < calls.maxCalls
    /\ LET t == timers[NextTimer(World)]
       IN  Commit(HandlePacketAckW(PopTimer(World), t.source, t.path))
    /\ calls' = [calls EXCEPT !.fires = @ + 1]
    /\ lastOp' = [op |-> "handle_packet_ack"]
    /\ UNCHANGED route

FireDecay ==
    /\ TimerDue(World, "decay")
    /\ calls.fires < calls.maxFires
    /\ calls.fires + calls.commands < calls.maxCalls
    /\ Commit(DecayCongestionW(PopTimer(World)))
    /\ calls' = [calls EXCEPT !.fires = @ + 1]
    /\ lastOp' = [op |-> "decay_congestion"]
    /\ UNCHANGED route

\* draw_network drops a packet whose animation reached the destination
DrawNetwork ==
    \E i \in 1..Len(packets) :
        /\ Commit([World EXCEPT !.packets = RemoveAt(@, i)])
        /\ lastOp' = NoOp
        /\ UNCHANGED <<route, calls>>

\* time passes until the next callback is due
Elapse ==
    /\ Len(timers) > 0
    /\ timers[NextTimer(World)].due > now
    /\ timers[NextTimer(World)].due <= MaxTime
    /\ Commit([World EXCEPT !.now = timers[NextTimer(World)].due])
    /\ lastOp' = NoOp
    /\ UNCHANGED <<route, calls>>

\* time passes with nothing scheduled before it ends
Idle ==
    /\ now + IdleStep <= MaxTime
    /\ \A i \in 1..Len(timers) : timers[i].due >= now + IdleStep
    /\ Commit([World EXCEPT !.now = now + IdleStep])
    /\ lastOp' = NoOp
    /\ UNCHANGED <<route, calls>>

Next ==
    \/ AddNode
    \/ Click
    \/ SetTrafficLoad
    \/ SetCongestionAlgorithm
    \/ ResetNetwork
    \/ ToggleSimulation
    \/ FireGenerate
    \/ FireAck
    \/ FireDecay
    \/ DrawNetwork
    \/ Elapse
    \/ Idle

Spec == Init /\ [][Next]_vars

-----------------------------------------------------------------------------
(* Start/stop runs: the two-node network under heavy load and either      *)
(* algorithm, where the user starts and stops the simulation many times.   *)
(* The runs begin after the user waited IdleStep, started the simulation   *)
(* (the first node sent a packet and timed out at once) and stopped it.    *)
(* Spec reaches that state from PairWorld by SetTrafficLoad, Idle and two *)
(* ToggleSimulation steps.                                                 *)

\* the draws of a generate call that sends from src without loss
SendChoice(w, src) ==
    CHOOSE ch \in GenChoices(w) : ch.source = src /\ ch.lossAt = 0

\* the draws of a generate call that returns at once
NoChoice(w) == CHOOSE ch \in GenChoices(w) : TRUE

WarmWorld(alg) ==
    LET w0 == [SetTrafficLoadW(SetCongestionAlgorithmW(PairWorld, alg), "heavy")
                 EXCEPT !.now = IdleStep]
        w1 == ToggleSimulationW(w0,
                 SendChoice([w0 EXCEPT !.running = TRUE], w0.nodes[1]))
    IN  ToggleSimulationW(w1, NoChoice([w1 EXCEPT !.running = FALSE]))

BurstWorlds == {WarmWorld(alg) : alg \in Algorithms}

InitBurst ==
    /\ \E w \in BurstWorlds :
          /\ nodes = w.nodes /\ links = w.links /\ nd = w.nd
          /\ selected = w.selected /\ packets = w.packets
          /\ running = w.running /\ load = w.load
          /\ rate = w.rate /\ algorithm = w.algorithm
          /\ stats = w.stats /\ series = w.series
          /\ timers = w.timers /\ now = w.now
    /\ route = NoRoute
    /\ lastOp = NoOp
    /\ calls = NoCalls(MaxBurstFires, MaxToggles, MaxBurstCalls)

NextBurst ==
    \/ ToggleSimulation
    \/ FireGenerate
    \/ FireAck
    \/ FireDecay
    \/ Elapse

SpecBurst == InitBurst /\ [][NextBurst]_vars

-----------------------------------------------------------------------------
(* Control harness: the control of one node, driven by arbitrary calls of  *)
(* on_ack_received, on_duplicate_ack and on_timeout.                       *)

\* a world with one node whose control is of variant alg
ControlWorld(alg) == AddNodeW(SetCongestionAlgorithmW(NewWorld, alg), 5)

InitCC ==
    /\ \E alg \in Algorithms :
          LET w == ControlWorld(alg)
          IN  /\ nodes = w.nodes /\ links = w.links /\ nd = w.nd
              /\ selected = w.selected /\ packets = w.packets
              /\ running = w.running /\ load = w.load
              /\ rate = w.rate /\ algorithm = w.algorithm
              /\ stats = w.stats /\ series = w.series
              /\ timers = w.timers /\ now = w.now
    /\ route = NoRoute
    /\ lastOp = NoOp
    /\ calls = NoCalls(MaxFires, MaxCommands, MaxFires + MaxCommands)

\* the call keeps the window and its denominator inside the model's bounds
InBounds(c) == c.cwnd[2] <= MaxDen /\ RLe(c.cwnd, RInt(MaxCwnd))

SetControl(c, op) ==
    /\ InBounds(c)
    /\ nd' = [nd EXCEPT ![1].tcp_control = c]
    /\ lastOp' = [op |-> op, before |-> nd[1].tcp_control]
    /\ UNCHANGED <<nodes, links, selected, packets, running, load, rate,
                   algorithm, stats, series, timers, now, route, calls>>

CallAck ==
    /\ nd[1].tcp_control.packets_acked < MaxAcks
    /\ SetControl(OnAckReceived(nd[1].tcp_control), "on_ack_received")

CallDuplicateAck ==
    SetControl(OnDuplicateAck(nd[1].tcp_control), "on_duplicate_ack")

CallTimeout ==
    SetControl(OnTimeout(nd[1].tcp_control), "on_timeout")

NextCC == CallAck \/ CallDuplicateAck \/ CallTimeout

SpecCC == InitCC /\ [][NextCC]_vars

-----------------------------------------------------------------------------
(* Path finder harness: a topology, and dijkstra_shortest_path called for  *)
(* two of its nodes as the path finder window does.                        *)

\* the pairs (i, j), i < j <= n, in order
PairSeq(n) ==
    LET RECURSIVE From(_, _)
        From(i, j) ==
            IF i >= n THEN <<>>
            ELSE IF j > n THEN From(i + 1, i + 2)
            ELSE <<<<i, j>>>> \o From(i, j + 1)
    IN  From(1, 2)

\* the nodes with latencies lats, added in order, then the links of L made
\* by clicking their two ends, in the order of PairSeq
RECURSIVE AddAll(_, _, _)
AddAll(w, lats, i) ==
    IF i > Len(lats) THEN w ELSE AddAll(AddNodeW(w, lats[i]), lats, i + 1)

RECURSIVE LinkAll(_, _, _, _)
LinkAll(w, ps, L, i) ==
    IF i > Len(ps) THEN w
    ELSE LinkAll(IF ps[i] \in L THEN ClickW(ClickW(w, ps[i][1]), ps[i][2])
                 ELSE w,
                 ps, L, i + 1)

BuiltWorld(lats, L) ==
    LinkAll(AddAll(NewWorld, lats, 1), PairSeq(Len(lats)), L, 1)

\* most nodes of a hand-built topology of the path finder harness
MaxRouteNodes == 4

\* nodes of a hand-built ring, which may have chords
RingNodes == 5

RingLinks(n) == {<<i, i + 1>> : i \in 1..(n - 1)} \cup {<<1, n>>}

\* the topologies of the harness: every hand-built one on 2..m nodes, the
\* rings with chords, and the generated star
RouteWorlds(m) ==
    UNION {
        {BuiltWorld(lats, L) :
            lats \in [1..n -> Latencies],
            L \in SUBSET Range(PairSeq(n))}
        : n \in 2..m}
    \cup {BuiltWorld(lats, L) :
            lats \in [1..RingNodes -> Latencies],
            L \in {M \in SUBSET Range(PairSeq(RingNodes)) :
                     RingLinks(RingNodes) \subseteq M}}
    \cup {GenerateStarW(NewWorld, lats) :
            lats \in [1..(NumPcs + 1) -> Latencies]}

InitRoute ==
    /\ \E w \in RouteWorlds(MaxRouteNodes) :
          /\ nodes = w.nodes /\ links = w.links /\ nd = w.nd
          /\ selected = w.selected /\ packets = w.packets
          /\ running = w.running /\ load = w.load
          /\ rate = w.rate /\ algorithm = w.algorithm
          /\ stats = w.stats /\ series = w.series
          /\ timers = w.timers /\ now = w.now
    /\ route = NoRoute
    /\ lastOp = NoOp
    /\ calls = NoCalls(MaxFires, MaxCommands, MaxFires + MaxCommands)

\* calculate_path of the path finder window: source and destination are
\* two different nodes of the topology
CalculatePath ==
    /\ lastOp = NoOp
    /\ \E a \in Range(nodes), b \in Range(nodes) :
        /\ a # b
        /\ route' \in DijkstraShortestPath(World, a, b)
        /\ lastOp' = [op |-> "calculate_path", source |-> a,
                      destination |-> b]
    /\ UNCHANGED <<nodes, links, nd, selected, packets, running, load, rate,
                   algorithm, stats, series, timers, now, calls>>

NextRoute == CalculatePath

SpecRoute == InitRoute /\ [][NextRoute]_vars

-----------------------------------------------------------------------------
(* Breadth-first path finder: find_path, called for two nodes of a         *)
(* topology of the path finder harness.                                    *)

\* the None that find_path returns; a returned path is never empty
NoPath == <<>>

\* the queue entries find_path appends for the neighbours in cs not in
\* visited, in the order of cs
RECURSIVE Enqueue(_, _, _)
Enqueue(cs, visited, path) ==
    IF cs = <<>> THEN <<>>
    ELSE (IF Head(cs) \in visited THEN <<>>
          ELSE <<[node |-> Head(cs), path |-> Append(path, Head(cs))]>>)
         \o Enqueue(Tail(cs), visited, path)

\* the loop of find_path taking the newest queue entry instead of the oldest
RECURSIVE FindPathLoopDepthFirst(_, _, _, _)
FindPathLoopDepthFirst(w, queue, visited, destination) ==
    IF queue = <<>> THEN NoPath
    ELSE LET e    == queue[Len(queue)]
             rest == SubSeq(queue, 1, Len(queue) - 1)
         IN  IF e.node = destination THEN e.path
             ELSE IF e.node \notin visited
                  THEN LET v2 == visited \cup {e.node}
                       IN  FindPathLoopDepthFirst(
                               w,
                               rest \o Enqueue(w.nd[e.node].connections, v2,
                                               e.path),
                               v2, destination)
                  ELSE FindPathLoopDepthFirst(w, rest, visited, destination)

\* the while loop of find_path: queue.pop(0), return at the destination,
\* otherwise visit the node and append its unvisited neighbours
RECURSIVE FindPathLoop(_, _, _, _)
FindPathLoop(w, queue, visited, destination) ==
    IF queue = <<>> THEN NoPath
    ELSE LET e    == Head(queue)
             rest == Tail(queue)
         IN  IF e.node = destination THEN e.path
             ELSE IF e.node \notin visited
                  THEN LET v2 == visited \cup {e.node}
                       IN  FindPathLoop(
                               w,
                               rest \o Enqueue(w.nd[e.node].connections, v2,
                                               e.path),
                               v2, destination)
                  ELSE FindPathLoop(w, rest, visited, destination)

FindPath(w, source, destination) ==
    FindPathLoop(w, <<[node |-> source, path |-> <<source>>]>>, {},
                 destination)

\* find_path for any two nodes of the topology, the same node included
CallFindPath ==
    /\ lastOp = NoOp
    /\ \E a \in Range(nodes), b \in Range(nodes) :
          lastOp' = [op |-> "find_path", source |-> a, destination |-> b,
                     result |-> FindPath(World, a, b)]
    /\ UNCHANGED <<nodes, links, nd, selected, packets, running, load, rate,
                   algorithm, stats, series, timers, now, route, calls>>

NextFind == CallFindPath

SpecFind == InitRoute /\ [][NextFind]_vars

-----------------------------------------------------------------------------
(* Topology harness: the topology commands together with                   *)
(* generate_topology for the five kinds.                                   *)

\* the node counts of create_mesh_topology, create_ring_topology,
\* create_tree_topology and create_linear_topology
NumMeshNodes   == 6
NumRingNodes   == 8
NumTreeNodes   == 15
NumLinearNodes == 7

\* commands of one run of the topology harness
MaxTopoCommands == 3

TopologyTypes == {"star", "mesh", "ring", "tree", "linear"}

\* NetworkNode(...) appended to self.nodes, once for each latency of lats
RECURSIVE AppendNodes(_, _, _)
AppendNodes(w, lats, i) ==
    IF i > Len(lats) THEN w
    ELSE AppendNodes([w EXCEPT !.nd = Append(@, NewNode(lats[i], w.now)),
                               !.nodes = Append(@, Len(w.nd) + 1)],
                     lats, i + 1)

\* a.connections.append(b); b.connections.append(a);
\* self.connections.append((a, b))
ConnectW(w, a, b) ==
    [w EXCEPT !.nd[a].connections = Append(@, b),
              !.nd[b].connections = Append(@, a),
              !.links = Append(@, <<a, b>>)]

\* the pairs of ps connected in order; the k-th node made is base + k
RECURSIVE ConnectAll(_, _, _, _)
ConnectAll(w, base, ps, i) ==
    IF i > Len(ps) THEN w
    ELSE ConnectAll(ConnectW(w, base + ps[i][1], base + ps[i][2]),
                    base, ps, i + 1)

\* the loop that ends every create_*_topology
InitControlsW(w) ==
    [w EXCEPT !.nd = [i \in DOMAIN w.nd |->
                        IF i \in Range(w.nodes)
                        THEN [w.nd[i] EXCEPT
                                !.tcp_control = NewControl(w.algorithm)]
                        ELSE w.nd[i]]]

\* all to all: node i with every later node
MeshPairs == PairSeq(NumMeshNodes)

\* node i with node (i + 1) % num_nodes
RingPairs == [i \in 1..NumRingNodes |-> <<i, (i % NumRingNodes) + 1>>]

\* cloud 1, routers 2 and 3, switches 4..7 (the first two under router 2),
\* PCs 8..15, two under each switch
TreePairs ==
    <<<<1, 2>>, <<1, 3>>>>
    \o [i \in 1..4 |-> <<IF i <= 2 THEN 2 ELSE 3, 3 + i>>]
    \o [k \in 1..8 |-> <<4 + ((k - 1) \div 2), 7 + k>>]

\* node i with the node before it
LinearPairs == [i \in 1..(NumLinearNodes - 1) |-> <<i, i + 1>>]

CreateMeshTopologyW(w, lats) ==
    InitControlsW(ConnectAll(AppendNodes(w, lats, 1), Len(w.nd),
                             MeshPairs, 1))

CreateRingTopologyW(w, lats) ==
    InitControlsW(ConnectAll(AppendNodes(w, lats, 1), Len(w.nd),
                             RingPairs, 1))

CreateTreeTopologyW(w, lats) ==
    InitControlsW(ConnectAll(AppendNodes(w, lats, 1), Len(w.nd),
                             TreePairs, 1))

CreateLinearTopologyW(w, lats) ==
    InitControlsW(ConnectAll(AppendNodes(w, lats, 1), Len(w.nd),
                             LinearPairs, 1))

\* the number of NetworkNode constructors a kind calls
TopologySize(kind) ==
    IF kind = "star" THEN NumPcs + 1
    ELSE IF kind = "mesh" THEN NumMeshNodes
    ELSE IF kind = "ring" THEN NumRingNodes
    ELSE IF kind = "tree" THEN NumTreeNodes
    ELSE NumLinearNodes

\* generate_topology(topology_type)
GenerateTopologyW(w, kind, lats) ==
    LET w0 == ResetNetworkW(w)
    IN  IF kind = "star" THEN CreateStarTopologyW(w0, lats)
        ELSE IF kind = "mesh" THEN CreateMeshTopologyW(w0, lats)
        ELSE IF kind = "ring" THEN CreateRingTopologyW(w0, lats)
        ELSE IF kind = "tree" THEN CreateTreeTopologyW(w0, lats)
        ELSE IF kind = "linear" THEN CreateLinearTopologyW(w0, lats)
        ELSE w0

InitTopo ==
    /\ nodes = NewWorld.nodes /\ links = NewWorld.links /\ nd = NewWorld.nd
    /\ selected = NewWorld.selected /\ packets = NewWorld.packets
    /\ running = NewWorld.running /\ load = NewWorld.load
    /\ rate = NewWorld.rate /\ algorithm = NewWorld.algorithm
    /\ stats = NewWorld.stats /\ series = NewWorld.series
    /\ timers = NewWorld.timers /\ now = NewWorld.now
    /\ route = NoRoute
    /\ lastOp = NoOp
    /\ calls = NoCalls(0, MaxTopoCommands, MaxTopoCommands)

GenerateTopology ==
    \E kind \in TopologyTypes :
      \E lats \in [1..TopologySize(kind) -> AddLatencies] :
        /\ calls.commands < calls.maxCommands
        /\ calls.fires + calls.commands < calls.maxCalls
        /\ Commit(GenerateTopologyW(World, kind, lats))
        /\ calls' = [calls EXCEPT !.commands = @ + 1]
        /\ lastOp' = [op |-> "generate_topology", kind |-> kind]
        /\ UNCHANGED route

NextTopo ==
    \/ AddNode
    \/ Click
    \/ SetCongestionAlgorithm
    \/ ResetNetwork
    \/ GenerateTopology

SpecTopo == InitTopo /\ [][NextTopo]_vars

-----------------------------------------------------------------------------
(* Properties                                                              *)

Controls == {nd[i].tcp_control : i \in DOMAIN nd} \ {NoControl}

\* C1: for Tahoe and Reno, after any sequence of on_ack_received,
\* on_duplicate_ack and on_timeout calls from the initial control state,
\* get_window_size() is floor(max(1, cwnd)), an integer >= 1.
C1_WindowSizeIsFloor ==
    \A c \in Controls :
        /\ GetWindowSize(c) = RFloor(RMax(RInt(1), c.cwnd))
        /\ GetWindowSize(c) \in Nat
        /\ GetWindowSize(c) >= 1

\* a call left a window that is no whole number: the floor cuts it
C1_Witness ==
    /\ lastOp.op = "on_ack_received"
    /\ \E c \in Controls : c.cwnd[2] > 1 /\ GetWindowSize(c) = 3

\* C2: in every reachable state of a control (either variant, any sequence
\* of ACK, duplicate ACK and timeout from the initial state), cwnd >= 1 and
\* ssthresh >= 2.
C2_WindowAndThresholdFloors ==
    \A c \in Controls : RLe(RInt(1), c.cwnd) /\ RLe(RInt(2), c.ssthresh)

\* a timeout took the threshold to its floor although half the window is less
C2_Witness ==
    /\ lastOp.op = "on_timeout"
    /\ RLt(RDiv(lastOp.before.cwnd, RInt(2)), RInt(2))
    /\ \E c \in Controls : c.ssthresh = RInt(2) /\ c.cwnd = RInt(1)

\* C7: for both variants and from every reachable control state,
\* on_timeout() yields cwnd = 1, state = slow_start, duplicate_ack_count = 0
\* and ssthresh = max(prior cwnd / 2, 2).
C7_TimeoutResets ==
    lastOp.op = "on_timeout" =>
        LET c == nd[1].tcp_control
        IN  /\ c.cwnd = RInt(1)
            /\ c.state = "slow_start"
            /\ c.duplicate_acks = 0
            /\ c.ssthresh = RMax(RDiv(lastOp.before.cwnd, RInt(2)), RInt(2))

\* a timeout in fast recovery, with duplicates counted and a large window
C7_Witness ==
    /\ lastOp.op = "on_timeout"
    /\ lastOp.before.state = "fast_recovery"
    /\ lastOp.before.duplicate_acks > 3
    /\ RLt(RInt(4), lastOp.before.cwnd)

\* C9: Reno: when the duplicate-ACK count reaches exactly 3, ssthresh becomes
\* max(cwnd/2, 2), cwnd becomes ssthresh + 3 and the state fast_recovery
\* (from cwnd = 20: ssthresh = 10, cwnd = 13); the first and the second
\* duplicate change only the count.
C9_RenoFastRetransmit ==
    (lastOp.op = "on_duplicate_ack" /\ lastOp.before.algorithm = "Reno") =>
        LET b == lastOp.before
            c == nd[1].tcp_control
        IN  /\ b.duplicate_acks = 2 =>
                /\ c.ssthresh = RMax(RDiv(b.cwnd, RInt(2)), RInt(2))
                /\ c.cwnd = RAdd(c.ssthresh, RInt(3))
                /\ c.state = "fast_recovery"
                /\ c.duplicate_acks = 3
                /\ b.cwnd = RInt(20) =>
                      c.ssthresh = RInt(10) /\ c.cwnd = RInt(13)
            /\ b.duplicate_acks < 2 =>
                c = [b EXCEPT !.duplicate_acks = b.duplicate_acks + 1]

\* the third duplicate in a row arrived at cwnd = 20
C9_Witness ==
    /\ lastOp.op = "on_duplicate_ack"
    /\ lastOp.before.algorithm = "Reno"
    /\ lastOp.before.duplicate_acks = 2
    /\ lastOp.before.cwnd = RInt(20)
    /\ nd[1].tcp_control.cwnd = RInt(13)

\* C10: Tahoe: after exactly 3 duplicate ACKs in a row the control is in
\* slow_start with cwnd = 1, ssthresh = max(prior cwnd / 2, 2) and duplicate
\* count 0; the first and the second duplicate change only the count.
C10_TahoeThreeDuplicates ==
    (lastOp.op = "on_duplicate_ack" /\ lastOp.before.algorithm = "Tahoe") =>
        LET b == lastOp.before
            c == nd[1].tcp_control
        IN  /\ b.duplicate_acks = 2 =>
                /\ c.state = "slow_start"
                /\ c.cwnd = RInt(1)
                /\ c.ssthresh = RMax(RDiv(b.cwnd, RInt(2)), RInt(2))
                /\ c.duplicate_acks = 0
            /\ b.duplicate_acks < 2 =>
                c = [b EXCEPT !.duplicate_acks = b.duplicate_acks + 1]

\* the third duplicate in a row arrived in congestion avoidance, at a window
\* whose half is above the floor of 2
C10_Witness ==
    /\ lastOp.op = "on_duplicate_ack"
    /\ lastOp.before.algorithm = "Tahoe"
    /\ lastOp.before.duplicate_acks = 2
    /\ lastOp.before.state = "congestion_avoidance"
    /\ RLt(RInt(4), lastOp.before.cwnd)
    /\ nd[1].tcp_control.state = "slow_start"

-----------------------------------------------------------------------------
(* Properties of the router, stated over the link records                  *)

Linked(a, b) == <<a, b>> \in Range(links) \/ <<b, a>> \in Range(links)

\* the nodes of the topology joined to a by a chain of links
RECURSIVE Component(_)
Component(S) ==
    LET T == S \cup {n \in Range(nodes) : \E m \in S : Linked(m, n)}
    IN  IF T = S THEN S ELSE Component(T)

\* every path without a repeated node that continues p and ends at b
RECURSIVE SimplePaths(_, _)
SimplePaths(p, b) ==
    IF p[Len(p)] = b THEN {p}
    ELSE UNION {SimplePaths(Append(p, n), b) :
                  n \in {m \in Range(nodes) \ Range(p) : Linked(p[Len(p)], m)}}

\* the sum of latency over the nodes of p except the last
RECURSIVE PathCost(_)
PathCost(p) ==
    IF Len(p) <= 1 THEN 0
    ELSE nd[p[1]].latency + PathCost(Tail(p))

Routed == lastOp.op = "calculate_path"

\* C4: dijkstra_shortest_path(a, b), a # b, returns no path iff a and b lie
\* in different connected components of the link graph; so it returns none
\* for two nodes that were never connected.
C4_NoPathIffDisconnected ==
    Routed =>
        (route = NoRoute <=>
            lastOp.destination \notin Component({lastOp.source}))

\* no path was returned for a source that has links, in a topology where
\* other nodes are connected
C4_Witness ==
    /\ Routed
    /\ route = NoRoute
    /\ \E n \in Range(nodes) : Linked(lastOp.source, n)
    /\ Len(links) >= 2

\* C5: a returned path starts at a, ends at b, follows existing links, and
\* its cost (latency summed over its nodes except the destination) is
\* minimal among all paths from a to b.
C5_PathIsShortest ==
    (Routed /\ route # NoRoute) =>
        LET p == route.path
        IN  /\ Len(p) >= 2
            /\ p[1] = lastOp.source
            /\ p[Len(p)] = lastOp.destination
            /\ \A i \in 1..(Len(p) - 1) : Linked(p[i], p[i + 1])
            /\ \A q \in SimplePaths(<<lastOp.source>>, lastOp.destination) :
                  PathCost(p) <= PathCost(q)

\* the returned path has more hops than another path, which costs more
C5_Witness ==
    /\ Routed
    /\ route # NoRoute
    /\ \E q \in SimplePaths(<<lastOp.source>>, lastOp.destination) :
          /\ Len(q) < Len(route.path)
          /\ PathCost(route.path) < PathCost(q)

\* the star generate_topology builds: seven nodes, six of them linked to
\* the first only
IsStar ==
    /\ Len(nodes) = NumPcs + 1
    /\ \A i \in 2..(NumPcs + 1) : nd[nodes[i]].connections = <<nodes[1]>>

\* C6: the returned total_latency is the sum of latency over the nodes of
\* the returned path except the last; in the generated star the result for
\* (PC1, PC4) is [PC1, ROUTER1, PC4] with PC1.latency + ROUTER1.latency.
C6_LatencyIsPathCost ==
    (Routed /\ route # NoRoute) =>
        /\ route.latency = PathCost(route.path)
        /\ (IsStar /\ lastOp.source = nodes[2] /\ lastOp.destination = nodes[5])
              => /\ route.path = <<nodes[2], nodes[1], nodes[5]>>
                 /\ route.latency = nd[nodes[2]].latency + nd[nodes[1]].latency

\* the star scenario, with a router and PCs of different latencies
C6_Witness ==
    /\ Routed
    /\ IsStar
    /\ lastOp.source = nodes[2]
    /\ lastOp.destination = nodes[5]
    /\ nd[nodes[1]].latency # nd[nodes[2]].latency
    /\ nd[nodes[5]].latency # nd[nodes[2]].latency
    /\ route.latency = 17

-----------------------------------------------------------------------------
(* Properties of the flow simulator                                        *)

\* C3: for every node, in every state reachable by any interleaving of
\* generate (loss or success), ack, timeout check and congestion decay
\* events and of start/stop/set_traffic_load/set_congestion_algorithm
\* commands, 0 <= congestion <= 10 and packets_in_flight >= 0.
C3_CongestionAndFlightBounds ==
    \A i \in DOMAIN nd :
        /\ RLe(RInt(0), nd[i].congestion)
        /\ RLe(nd[i].congestion, RInt(10))
        /\ nd[i].packets_in_flight >= 0

\* the cap of 10 held back a node that sent packets; the decay that
\* follows in the same start took 0.1 off
C3_Witness ==
    \E i \in Range(nodes) :
        /\ nd[i].congestion = Rat(99, 10)
        /\ running
        /\ nd[i].tcp_control # NoControl
        /\ nd[i].tcp_control.packets_sent >= 1

\* check_timeouts timed node i out in the step: only it and
\* handle_packet_ack write last_ack_time, and an ack counts in packets_acked
TimedOutInStep(i) ==
    /\ i \in DOMAIN nd'
    /\ nd'[i].last_ack_time # nd[i].last_ack_time
    /\ nd[i].tcp_control # NoControl
    /\ nd'[i].tcp_control # NoControl
    /\ nd'[i].tcp_control.packets_acked = nd[i].tcp_control.packets_acked

HalfOrTwo(x) == RMax(RDiv(x, RInt(2)), RInt(2))

-----------------------------------------------------------------------------
(* Properties of the generate tick, stated over the draws it made          *)

\* the step ran start_packet_generation past its guard: from a timer, or
\* from toggle_simulation starting the simulation
TimerTick == lastOp'.op = "start_packet_generation" /\ lastOp'.draw.source # 0
StartTick == lastOp'.op = "toggle_simulation" /\ lastOp'.draw.source # 0
GenerateTick == TimerTick \/ StartTick

\* the timers of kind k among ts, in order
RECURSIVE OfKind(_, _)
OfKind(ts, k) ==
    IF ts = <<>> THEN <<>>
    ELSE (IF ts[1].kind = k THEN <<ts[1]>> ELSE <<>>) \o OfKind(Tail(ts), k)

\* the window check fails for node src in the current state
WindowBlocked(src) ==
    nd[src].packets_in_flight >= GetWindowSize(nd[src].tcp_control)

C12_InactiveCallbacksDoNothing ==
    [][(lastOp'.op \in {"start_packet_generation", "decay_congestion"}
          /\ ~running) =>
          /\ nodes' = nodes /\ links' = links /\ nd' = nd
          /\ packets' = packets
          /\ stats' = stats /\ series' = series
          /\ running' = running
          /\ OfKind(timers', "ack") = OfKind(timers, "ack")
          /\ Len(timers') = Len(timers) - 1
          /\ Len(OfKind(timers', "generate")) <= Len(OfKind(timers, "generate"))
          /\ Len(OfKind(timers', "decay")) <= Len(OfKind(timers, "decay"))]_vars

\* the generate callback of a stopped simulation fired over a network with
\* congested nodes and nothing of its chain is left
C12_Witness ==
    /\ lastOp.op = "start_packet_generation"
    /\ ~running
    /\ Len(nodes) >= 2
    /\ \E i \in Range(nodes) : RLt(RInt(0), nd[i].congestion)
    /\ OfKind(timers, "generate") = <<>>

\* C13: while the simulation is active the recurring generate and decay
\* events are each re-armed after every firing: in every reachable state in
\* which the simulation is active, whatever the number of nodes, a generate
\* event and a decay event are pending.
C13_RecurringEventsPending ==
    running =>
        /\ OfKind(timers, "generate") # <<>>
        /\ OfKind(timers, "decay") # <<>>

\* C14: after reset from any reachable state the node list, the link list
\* and the packet list are empty, the simulation is inactive, the routing
\* statistics are back to total_packets = 0, avg_hop_count = 0, min_hops =
\* infinity, max_hops = 0 with an empty history, and the latency,
\* throughput and time stamp series are empty; the selected traffic load
\* and congestion algorithm are unchanged.
C14_ResetClearsTopologyAndStatistics ==
    [][lastOp'.op = "reset_network" =>
          /\ nodes' = <<>> /\ links' = <<>> /\ packets' = <<>>
          /\ running' = FALSE
          /\ stats'.total_packets = 0
          /\ stats'.avg_hop_count = RInt(0)
          /\ stats'.min_hops = Infinity
          /\ stats'.max_hops = 0
          /\ stats'.path_history = <<>>
          /\ series'.latency_history = <<>>
          /\ series'.throughput_history = <<>>
          /\ series'.time_stamps = <<>>
          /\ load' = load /\ rate' = rate
          /\ algorithm' = algorithm]_vars

\* the reset hit a running simulation that had sent a packet
C14_Witness ==
    /\ lastOp.op = "reset_network"
    /\ nodes = <<>>
    /\ stats.total_packets = 0
    /\ \E i \in DOMAIN nd :
          /\ nd[i].tcp_control # NoControl
          /\ nd[i].tcp_control.packets_sent >= 1
    /\ OfKind(timers, "generate") # <<>>
    /\ OfKind(timers, "ack") # <<>>

-----------------------------------------------------------------------------
(* Statistics harness: track_performance called with any arguments, at any *)
(* time, with a reset in between                                           *)

\* most track_performance calls between two resets, and most resets
MaxTracks == 4
MaxStatResets == 1
\* the longest path passed to track_performance
MaxPathLen == 4
\* time.time() between two calls: none, or this many milliseconds
TrackStep == 500

InitStats ==
    /\ nodes = NewWorld.nodes /\ links = NewWorld.links /\ nd = NewWorld.nd
    /\ selected = NewWorld.selected /\ packets = NewWorld.packets
    /\ running = NewWorld.running /\ load = NewWorld.load
    /\ rate = NewWorld.rate /\ algorithm = NewWorld.algorithm
    /\ stats = NewWorld.stats /\ series = NewWorld.series
    /\ timers = NewWorld.timers /\ now = NewWorld.now
    /\ route = NoRoute
    /\ lastOp = [op |-> "none", hops |-> <<>>]
    /\ calls = NoCalls(MaxTracks, MaxStatResets, MaxTracks + MaxStatResets)

\* track_performance(latency, hops); lastOp keeps the hops arguments passed
\* since the last reset
CallTrackPerformance ==
    \E latency \in AddLatencies, hops \in 2..MaxPathLen, dt \in {0, TrackStep} :
        /\ calls.fires < calls.maxFires
        /\ Commit(TrackPerformanceW([World EXCEPT !.now = @ + dt],
                                    latency, hops))
        /\ calls' = [calls EXCEPT !.fires = @ + 1]
        /\ lastOp' = [op |-> "track_performance",
                      hops |-> Append(lastOp.hops, hops)]
        /\ UNCHANGED route

CallResetNetwork ==
    /\ calls.commands < calls.maxCommands
    /\ Commit(ResetNetworkW(World))
    /\ calls' = [calls EXCEPT !.commands = @ + 1, !.fires = 0]
    /\ lastOp' = [op |-> "reset_network", hops |-> <<>>]
    /\ UNCHANGED route

NextStats == CallTrackPerformance \/ CallResetNetwork

SpecStats == InitStats /\ [][NextStats]_vars

RECURSIVE SeqSum(_)
SeqSum(s) == IF s = <<>> THEN 0 ELSE s[1] + SeqSum(Tail(s))

\* the hop counts recorded since the last reset: path length - 1
HopCounts == [i \in 1..Len(lastOp.hops) |-> lastOp.hops[i] - 1]

\* C15: after any sequence of track_performance calls since the last reset,
\* total_packets is the number of calls, avg_hop_count is the arithmetic
\* mean of all recorded hop counts (path length - 1), and min_hops and
\* max_hops are their minimum and maximum.
C15_StatisticsMatchRecordedHops ==
    LET n == Len(HopCounts)
    IN  /\ stats.total_packets = n
        /\ n > 0 =>
              /\ stats.avg_hop_count = Rat(SeqSum(HopCounts), n)
              /\ stats.min_hops \in Range(HopCounts)
              /\ stats.max_hops \in Range(HopCounts)
              /\ \A h \in Range(HopCounts) :
                    stats.min_hops <= h /\ h <= stats.max_hops

\* four calls with three different hop counts after a reset; the mean is
\* not one of them
C15_Witness ==
    /\ calls.commands = 1
    /\ Len(HopCounts) = 4
    /\ Cardinality(Range(HopCounts)) = 3
    /\ stats.avg_hop_count \notin {RInt(h) : h \in Range(HopCounts)}

\* C16: every generate tick in which the window check passes and a path is
\* found records exactly one routing statistics entry (total_packets + 1,
\* with the router's total_latency and the path's hop count), whether the
\* send succeeded or was lost; a tick blocked by the window or with no
\* path, and a call that does not get past its guard, record nothing.
C16_EveryRoutedAttemptIsRecorded ==
    [][lastOp'.op \in {"start_packet_generation", "toggle_simulation"} =>
          LET ch == lastOp'.draw
          IN  IF /\ ch.source # 0
                 /\ ~WindowBlocked(ch.source)
                 /\ ch.destination \in Component({ch.source})
              THEN /\ stats'.total_packets = stats.total_packets + 1
                   /\ Len(stats'.path_history) = Len(stats.path_history) + 1
                   /\ Last(stats'.path_history).hops = Len(ch.route.path) - 1
                   /\ Last(stats'.path_history).latency = ch.route.latency
                   /\ ch.route.latency = PathCost(ch.route.path)
                   /\ Len(series'.latency_history) =
                         Len(series.latency_history) + 1
              ELSE stats' = stats /\ series' = series]_vars

\* a tick lost its packet and was recorded: more entries than sends
C16_Witness ==
    /\ lastOp.op \in {"start_packet_generation", "toggle_simulation"}
    /\ lastOp.draw.source # 0
    /\ lastOp.draw.lossAt > 0
    /\ stats.total_packets >= 2
    /\ Len(stats.path_history) = stats.total_packets
    /\ \E i \in Range(nodes) :
          nd[i].tcp_control.packets_sent < stats.total_packets
             /\ nd[i].tcp_control.duplicate_acks >= 1

Found == lastOp.op = "find_path"

\* C17: find_path(a, b) returns None iff b cannot be reached from a over
\* the links; otherwise it returns a path that starts at a, ends at b,
\* follows existing links and has the fewest hops of all paths from a to b.
\* It need not be the path dijkstra_shortest_path returns.
C17_FindPathHasFewestHops ==
    Found =>
        LET a == lastOp.source
            b == lastOp.destination
            p == lastOp.result
        IN  /\ p = NoPath <=> b \notin Component({a})
            /\ p # NoPath =>
                  /\ p[1] = a
                  /\ p[Len(p)] = b
                  /\ \A i \in 1..(Len(p) - 1) : Linked(p[i], p[i + 1])
                  /\ \A q \in SimplePaths(<<a>>, b) : Len(p) <= Len(q)

\* a path of two hops or more was found where the router's path for the
\* same pair has more hops
C17_Witness ==
    /\ Found
    /\ Len(lastOp.result) >= 3
    /\ \E r \in DijkstraShortestPath(World, lastOp.source,
                                     lastOp.destination) :
          r # NoRoute /\ Len(r.path) > Len(lastOp.result)

-----------------------------------------------------------------------------
(* Properties of the topology                                              *)

\* how often x occurs in the sequence s
Count(s, x) == Cardinality({k \in DOMAIN s : s[k] = x})

\* C19: a click that connects two different nodes with no link between
\* them adds each to the other's adjacency and one link record in the same
\* step; connecting a node to itself or an already linked pair changes no
\* adjacency and no link record.  In every reachable state, after manual
\* connects and generated topologies, adjacency is symmetric, has no
\* self-loop and there is at most one link per unordered pair.
C19_ConnectIsSymmetric ==
    /\ [](\A i \in DOMAIN nd :
             /\ Count(nd[i].connections, i) = 0
             /\ \A j \in DOMAIN nd :
                   /\ Count(nd[i].connections, j) <= 1
                   /\ Count(nd[i].connections, j) = Count(nd[j].connections, i)
                   /\ Count(links, <<i, j>>) + Count(links, <<j, i>>) <= 1
                   /\ Count(links, <<i, j>>) = 1 =>
                         Count(nd[i].connections, j) = 1)
    /\ [][(lastOp'.op = "on_canvas_click" /\ selected # 0) =>
             LET a == selected
                 b == lastOp'.node
             IN  IF a # b /\ Count(nd[a].connections, b) = 0
                 THEN /\ nd'[a].connections = Append(nd[a].connections, b)
                      /\ nd'[b].connections = Append(nd[b].connections, a)
                      /\ links' = Append(links, <<a, b>>)
                      /\ \A i \in DOMAIN nd \ {a, b} :
                            nd'[i].connections = nd[i].connections
                 ELSE /\ links' = links
                      /\ \A i \in DOMAIN nd :
                            nd'[i].connections = nd[i].connections]_vars

\* two nodes of a generated ring that were not neighbours were connected
\* by hand
C19_Witness ==
    /\ lastOp.op = "on_canvas_click"
    /\ Len(nodes) = NumRingNodes
    /\ Len(links) = NumRingNodes + 1
    /\ selected = 0

\* a control as its constructor leaves it, of the variant alg
Fresh(c, alg) ==
    /\ c # NoControl
    /\ c.algorithm = alg
    /\ c.state = "slow_start"
    /\ c.cwnd = RInt(1)
    /\ c.ssthresh = RInt(64)
    /\ c.duplicate_acks = 0

\* C20: a control made when a node is added, a topology is generated or
\* set_congestion_algorithm is called is of the selected variant, in state
\* slow_start with cwnd 1, ssthresh 64 and duplicate count 0; and in every
\* reachable state every node of the topology has a control whose variant
\* is the selected algorithm.
C20_ControlsFollowSelection ==
    /\ [](/\ algorithm \in Algorithms
          /\ \A i \in Range(nodes) :
                /\ nd[i].tcp_control # NoControl
                /\ nd[i].tcp_control.algorithm = algorithm)
    /\ [][/\ lastOp'.op = "add_node" =>
                /\ Len(nodes') = Len(nodes) + 1
                /\ Fresh(nd'[nodes'[Len(nodes')]].tcp_control, algorithm)
          /\ lastOp'.op \in {"set_congestion_algorithm",
                             "generate_topology"} =>
                \A i \in Range(nodes') :
                    Fresh(nd'[i].tcp_control, algorithm')
          /\ lastOp'.op = "generate_topology" =>
                /\ algorithm' = algorithm
                /\ Len(nodes') = TopologySize(lastOp'.kind)]_vars

\* a tree generated after the selection was changed to Tahoe
C20_Witness ==
    /\ lastOp.op = "generate_topology"
    /\ lastOp.kind = "tree"
    /\ algorithm = "Tahoe"
    /\ Len(nodes) = NumTreeNodes
    /\ \A i \in Range(nodes) : Fresh(nd[i].tcp_control, "Tahoe")

-----------------------------------------------------------------------------
(* Properties of the controls, step by step                                *)

\* C21: for both variants an ACK in slow_start adds exactly 1 to cwnd,
\* resets the duplicate-ACK count and moves to congestion_avoidance exactly
\* when the new cwnd >= ssthresh; an ACK in congestion_avoidance adds
\* 1/cwnd to cwnd, resets the count and keeps the state; no ACK changes
\* ssthresh.
C21_AckGrowsWindow ==
    lastOp.op = "on_ack_received" =>
        LET b == lastOp.before
            c == nd[1].tcp_control
        IN  /\ c.ssthresh = b.ssthresh
            /\ b.state = "slow_start" =>
                  /\ c.cwnd = RAdd(b.cwnd, RInt(1))
                  /\ c.duplicate_acks = 0
                  /\ c.state = IF RLe(c.ssthresh, c.cwnd)
                               THEN "congestion_avoidance"
                               ELSE "slow_start"
            /\ b.state = "congestion_avoidance" =>
                  /\ c.cwnd = RAdd(b.cwnd, RDiv(RInt(1), b.cwnd))
                  /\ c.duplicate_acks = 0
                  /\ c.state = "congestion_avoidance"

\* an ACK in slow_start, after a duplicate, brought cwnd to exactly ssthresh
\* and the control into congestion_avoidance
C21_Witness ==
    /\ lastOp.op = "on_ack_received"
    /\ lastOp.before.state = "slow_start"
    /\ lastOp.before.duplicate_acks > 0
    /\ nd[1].tcp_control.state = "congestion_avoidance"
    /\ nd[1].tcp_control.cwnd = nd[1].tcp_control.ssthresh

\* C22: Reno: an ACK in fast_recovery sets cwnd = ssthresh, moves to
\* congestion_avoidance and resets the duplicate-ACK count; a control
\* leaves fast_recovery only by an ACK, to congestion_avoidance, or by a
\* timeout, to slow_start.
C22_RenoLeavesFastRecovery ==
    (lastOp.op \in {"on_ack_received", "on_duplicate_ack", "on_timeout"}
       /\ lastOp.before.algorithm = "Reno"
       /\ lastOp.before.state = "fast_recovery") =>
        LET b == lastOp.before
            c == nd[1].tcp_control
        IN  /\ lastOp.op = "on_ack_received" =>
                  /\ c.cwnd = b.ssthresh
                  /\ c.ssthresh = b.ssthresh
                  /\ c.state = "congestion_avoidance"
                  /\ c.duplicate_acks = 0
            /\ lastOp.op = "on_timeout" => c.state = "slow_start"
            /\ lastOp.op = "on_duplicate_ack" => c.state = "fast_recovery"

\* an ACK ended a fast recovery whose window had been inflated by further
\* duplicates
C22_Witness ==
    /\ lastOp.op = "on_ack_received"
    /\ lastOp.before.algorithm = "Reno"
    /\ lastOp.before.state = "fast_recovery"
    /\ lastOp.before.duplicate_acks >= 5
    /\ RLt(RAdd(lastOp.before.ssthresh, RInt(3)), lastOp.before.cwnd)
    /\ nd[1].tcp_control.cwnd = lastOp.before.ssthresh
    /\ nd[1].tcp_control.state = "congestion_avoidance"

\* C23: Reno: a duplicate ACK received in fast_recovery (the fourth, fifth,
\* ... in a row) adds exactly 1 to cwnd and changes neither ssthresh nor
\* the state; the count of a control in fast_recovery is 3 or more, so no
\* duplicate retransmits a second time before an ACK or a timeout has reset
\* the count.
C23_RenoInflatesWindow ==
    /\ \A c \in Controls :
          (c.algorithm = "Reno" /\ c.state = "fast_recovery") =>
              c.duplicate_acks >= 3
    /\ (lastOp.op = "on_duplicate_ack"
          /\ lastOp.before.algorithm = "Reno"
          /\ lastOp.before.state = "fast_recovery") =>
           LET b == lastOp.before
               c == nd[1].tcp_control
           IN  /\ c.duplicate_acks = b.duplicate_acks + 1
               /\ c.duplicate_acks >= 4
               /\ c.cwnd = RAdd(b.cwnd, RInt(1))
               /\ c.ssthresh = b.ssthresh
               /\ c.state = "fast_recovery"

\* the sixth duplicate in a row inflated a window that earlier duplicates
\* had inflated already
C23_Witness ==
    /\ lastOp.op = "on_duplicate_ack"
    /\ lastOp.before.algorithm = "Reno"
    /\ lastOp.before.state = "fast_recovery"
    /\ nd[1].tcp_control.duplicate_acks = 6
    /\ nd[1].tcp_control.cwnd = RAdd(nd[1].tcp_control.ssthresh, RInt(6))

-----------------------------------------------------------------------------
(* Properties of the generate tick and of the callbacks, step by step      *)

\* node i as the loss branch leaves it for the draws ch, before the timeout
\* check: the sampled loss probability, one duplicate ACK on the source's
\* control, and the congestion of a path node raised
AfterLossNode(ch, i) ==
    LET c1 == OnDuplicateAck(nd[ch.source].tcp_control)
        f  == IF c1.state = "slow_start" THEN Rat(1, 2)
              ELSE IF c1.state = "fast_recovery" THEN Rat(3, 2)
              ELSE RInt(1)
        up == RMul(Rat(1, 2), f)
    IN  [nd[i] EXCEPT
           !.packet_loss_probability =
               IF i \in Sampled(ch) THEN LossProbability(nd[i].congestion)
               ELSE @,
           !.tcp_control = IF i = ch.source THEN c1 ELSE @,
           !.congestion =
               IF i \in Range(ch.route.path)
               THEN (IF RLt(RInt(10), RAdd(@, up)) THEN RInt(10)
                     ELSE RAdd(@, up))
               ELSE @]

AfterLoss(ch) == [i \in DOMAIN nd |-> AfterLossNode(ch, i)]

\* the nodes after the rest of a tick that left them as E: the timeout
\* check, and the first decay when toggle_simulation made the tick
RestOfTick(E, start) ==
    LET w == CheckTimeoutsW([World EXCEPT !.nd = E, !.running = TRUE])
    IN  IF start THEN DecayCongestionW(w).nd ELSE w.nd

AfterSendNode(ch, i) ==
    LET win  == GetWindowSize(nd[ch.source].tcp_control)
        mult == IF load = "light" THEN Rat(1, 2)
                ELSE IF load = "heavy" THEN RInt(2)
                ELSE RInt(1)
        up   == RMul(Rat(1, win), mult)
    IN  [nd[i] EXCEPT
           !.packet_loss_probability =
               IF i \in Sampled(ch) THEN LossProbability(nd[i].congestion)
               ELSE @,
           !.packets_in_flight = IF i = ch.source THEN @ + 1 ELSE @,
           !.tcp_control =
               IF i = ch.source THEN [@ EXCEPT !.packets_sent = @ + 1]
               ELSE @,
           !.congestion =
               IF i \in Range(ch.route.path)
               THEN (IF RLt(RInt(10), RAdd(@, up)) THEN RInt(10)
                     ELSE RAdd(@, up))
               ELSE @]

AfterSend(ch) == [i \in DOMAIN nd |-> AfterSendNode(ch, i)]

\* the tick whose draws are kept in lastOp' found a path and lost nothing
SendTick ==
    /\ GenerateTick
    /\ lastOp'.draw.route # NoRoute
    /\ lastOp'.draw.lossAt = 0

AckFired == timers[NextTimer(World)]

\* C26: when the ack for (source, path) fires, the source's
\* packets_in_flight goes down by 1 but not below 0, on_ack_received is
\* called once on the control the source has at that moment, its
\* last_ack_time becomes the current time, and the congestion of every path
\* node goes down by 0.2 but not below 0; no other node, no packet and no
\* statistics change.
C26_AckCallback ==
    [][lastOp'.op = "handle_packet_ack" =>
          LET src  == AckFired.source
              path == Range(AckFired.path)
          IN  /\ AckFired.kind = "ack"
              /\ nd' = [i \in DOMAIN nd |->
                         [nd[i] EXCEPT
                            !.tcp_control =
                                IF i = src THEN OnAckReceived(@) ELSE @,
                            !.packets_in_flight =
                                IF i = src
                                THEN (IF @ >= 1 THEN @ - 1 ELSE 0)
                                ELSE @,
                            !.last_ack_time = IF i = src THEN now ELSE @,
                            !.congestion =
                                IF i \in path
                                THEN (IF RLt(@, Rat(1, 5)) THEN RInt(0)
                                      ELSE RSub(@, Rat(1, 5)))
                                ELSE @]]
              /\ Len(timers') = Len(timers) - 1
              /\ OfKind(timers', "generate") = OfKind(timers, "generate")
              /\ OfKind(timers', "decay") = OfKind(timers, "decay")
              /\ stats' = stats /\ series' = series
              /\ packets' = packets
              /\ nodes' = nodes /\ links' = links
              /\ running' = running /\ algorithm' = algorithm]_vars

\* the ack of a packet sent before set_congestion_algorithm replaced the
\* source's control reached the new control, which has sent nothing
C26_Witness ==
    /\ lastOp.op = "handle_packet_ack"
    /\ \E i \in Range(nodes) :
          /\ nd[i].tcp_control.packets_acked = 1
          /\ nd[i].tcp_control.packets_sent = 0
          /\ nd[i].tcp_control.cwnd = RInt(2)
          /\ nd[i].last_ack_time = now
          /\ nd[i].packets_in_flight = 0

\* node i as a tick with the draws ch leaves it before its timeout check:
\* unchanged when the window blocked the source or no path was found,
\* otherwise after the loss or the send
AfterBranchNode(ch, i) ==
    IF ch.route = NoRoute THEN nd[i]
    ELSE IF ch.lossAt > 0 THEN AfterLossNode(ch, i)
    ELSE AfterSendNode(ch, i)

\* node i of the topology, being as m, is timed out: packets in flight and
\* the last ACK more than timeout_threshold ago
Overdue(i, m) ==
    /\ i \in Range(nodes)
    /\ m.tcp_control # NoControl
    /\ m.packets_in_flight > 0
    /\ now - m.last_ack_time > TimeoutThreshold

\* node i, being as m, after the first decay_congestion of a start
DecayedNode(i, m) ==
    IF i \in Range(nodes) /\ RLt(RInt(0), m.congestion)
    THEN LET dr == IF load = "heavy" THEN Rat(1, 10) ELSE Rat(1, 5)
         IN  [m EXCEPT !.congestion =
                IF RLt(@, dr) THEN RInt(0) ELSE RSub(@, dr)]
    ELSE m

C28_DecayCallback ==
    [][(lastOp'.op = "decay_congestion" /\ running) =>
          LET dr == IF load = "heavy" THEN Rat(1, 10) ELSE Rat(1, 5)
          IN  /\ nd' = [i \in DOMAIN nd |->
                          IF i \in Range(nodes)
                          THEN [nd[i] EXCEPT !.congestion =
                                  IF RLt(@, dr) THEN RInt(0) ELSE RSub(@, dr)]
                          ELSE nd[i]]
              /\ Last(timers').kind = "decay"
              /\ Last(timers').due = now + 500
              /\ Len(timers') = Len(timers)
              /\ OfKind(timers', "ack") = OfKind(timers, "ack")
              /\ OfKind(timers', "generate") = OfKind(timers, "generate")
              /\ stats' = stats /\ series' = series
              /\ packets' = packets
              /\ nodes' = nodes /\ links' = links
              /\ running' /\ load' = load /\ algorithm' = algorithm]_vars

\* a decay under heavy load took 0.1 from a node that a send had raised
\* by 2 and an ack lowered by 0.2
C28_Witness ==
    /\ lastOp.op = "decay_congestion"
    /\ running
    /\ load = "heavy"
    /\ \E i \in Range(nodes) : nd[i].congestion = Rat(17, 10)

\* the tick whose draws are kept in lastOp' passed the window check and
\* the router found no path: the destination is not joined to the source
NoPathTick ==
    /\ GenerateTick
    /\ ~WindowBlocked(lastOp'.draw.source)
    /\ lastOp'.draw.destination \notin Component({lastOp'.draw.source})

-----------------------------------------------------------------------------
(* History harness: track_performance called often enough to fill the      *)
(* path history and the three series.                                      *)

\* the most entries routing_stats['path_history'] keeps, and the most data
\* points each of the three series keeps
PathHistoryCap == 100
SeriesCap == 50

\* track_performance calls in one run of the harness, and how many of them
\* may be odd: a longer path and another latency, at the same time.time()
\* as the call before
MaxHistoryCalls == 103
MaxOddCalls == 1

InitHistory ==
    /\ nodes = NewWorld.nodes /\ links = NewWorld.links /\ nd = NewWorld.nd
    /\ selected = NewWorld.selected /\ packets = NewWorld.packets
    /\ running = NewWorld.running /\ load = NewWorld.load
    /\ rate = NewWorld.rate /\ algorithm = NewWorld.algorithm
    /\ stats = NewWorld.stats /\ series = NewWorld.series
    /\ timers = NewWorld.timers /\ now = NewWorld.now
    /\ route = NoRoute
    /\ lastOp = [op |-> "none", log |-> <<>>]
    /\ calls = NoCalls(MaxHistoryCalls, MaxOddCalls,
                       MaxHistoryCalls + MaxOddCalls)

\* track_performance(latency, hops), TrackStep after the call before it or,
\* for an odd call, at the same time; lastOp keeps every call made: its
\* arguments, its time and the throughput it appended
TrackOften ==
    \E odd \in BOOLEAN :
        LET latency == IF odd THEN 5 ELSE 12
            hops    == IF odd THEN MaxPathLen ELSE 2
            w0      == [World EXCEPT !.now = IF odd THEN @ ELSE @ + TrackStep]
            w1      == TrackPerformanceW(w0, latency, hops)
        IN  /\ calls.fires < calls.maxFires
            /\ odd => calls.commands < calls.maxCommands
            /\ Commit(w1)
            /\ calls' = [calls EXCEPT
                           !.fires = @ + 1,
                           !.commands = IF odd THEN @ + 1 ELSE @]
            /\ lastOp' = [op |-> "track_performance",
                          log |-> Append(lastOp.log,
                                    [hops |-> hops, latency |-> latency,
                                     time |-> w0.now
                                        - w0.series.performance_start_time,
                                     throughput |->
                                        Last(w1.series.throughput_history)])]
            /\ UNCHANGED route

NextHistory == TrackOften

SpecHistory == InitHistory /\ [][NextHistory]_vars

-----------------------------------------------------------------------------
(* Properties of the bounded histories                                     *)

\* the last n elements of s, all of s if it has fewer
LastN(s, n) == IF Len(s) <= n THEN s ELSE SubSeq(s, Len(s) - n + 1, Len(s))

\* C30: after any sequence of track_performance calls the path history
\* holds at most 100 entries, the most recent ones in call order, and the
\* latency, throughput and time stamp series each hold at most 50, the
\* most recent ones, and are equally long.
C30_HistoriesAreBounded ==
    LET log == lastOp.log
        n   == Len(log)
    IN  /\ Len(stats.path_history) <= PathHistoryCap
        /\ stats.path_history =
              LastN([k \in 1..n |-> [hops |-> log[k].hops - 1,
                                     latency |-> log[k].latency,
                                     time |-> log[k].time]],
                    PathHistoryCap)
        /\ Len(series.time_stamps) <= SeriesCap
        /\ Len(series.latency_history) = Len(series.time_stamps)
        /\ Len(series.throughput_history) = Len(series.time_stamps)
        /\ series.time_stamps = LastN([k \in 1..n |-> log[k].time], SeriesCap)
        /\ series.latency_history =
              LastN([k \in 1..n |-> log[k].latency], SeriesCap)
        /\ series.throughput_history =
              LastN([k \in 1..n |-> log[k].throughput], SeriesCap)

\* 103 calls were made: the path history has dropped the first three and
\* the series the first 53, and an odd call is among those the series keep
C30_Witness ==
    /\ Len(lastOp.log) = PathHistoryCap + 3
    /\ Len(stats.path_history) = PathHistoryCap
    /\ stats.path_history[1].time = lastOp.log[4].time
    /\ Len(series.latency_history) = SeriesCap
    /\ series.time_stamps[1] = lastOp.log[54].time
    /\ \E k \in 1..SeriesCap : series.latency_history[k] = 5

-----------------------------------------------------------------------------
(* Stale callbacks: the two-node network is running and one of its nodes   *)
(* has just sent a packet, so an Ack, a generate and a decay callback are  *)
(* scheduled; the user then resets the network or generates a topology,    *)
(* builds on and starts again while those callbacks are still to come.     *)

\* commands and callbacks of one run of this harness
MaxStaleCommands == 2
MaxStaleFires == 3

\* the kinds of topology the user generates in these runs
StaleKinds == {"linear"}

\* PairWorld after toggle_simulation, whose generate call sent from src
StartedWorld(src) ==
    ToggleSimulationW(PairWorld,
                      SendChoice([PairWorld EXCEPT !.running = TRUE], src))

InitStale ==
    /\ \E src \in Range(PairWorld.nodes) :
          LET w == StartedWorld(src)
          IN  /\ nodes = w.nodes /\ links = w.links /\ nd = w.nd
              /\ selected = w.selected /\ packets = w.packets
              /\ running = w.running /\ load = w.load
              /\ rate = w.rate /\ algorithm = w.algorithm
              /\ stats = w.stats /\ series = w.series
              /\ timers = w.timers /\ now = w.now
    /\ route = NoRoute
    /\ lastOp = NoOp
    /\ calls = NoCalls(MaxStaleFires, MaxStaleCommands,
                       MaxStaleFires + MaxStaleCommands)

\* generate_topology from the Topology menu
Regenerate ==
    \E kind \in StaleKinds :
      \E lats \in [1..TopologySize(kind) -> AddLatencies] :
        /\ calls.commands < calls.maxCommands
        /\ calls.fires + calls.commands < calls.maxCalls
        /\ Commit(GenerateTopologyW(World, kind, lats))
        /\ calls' = [calls EXCEPT !.commands = @ + 1]
        /\ lastOp' = [op |-> "generate_topology", kind |-> kind]
        /\ UNCHANGED route

NextStale ==
    \/ ResetNetwork
    \/ Regenerate
    \/ AddNode
    \/ ToggleSimulation
    \/ FireGenerate
    \/ FireAck
    \/ FireDecay
    \/ Elapse

SpecStale == InitStale /\ [][NextStale]_vars

-----------------------------------------------------------------------------
(* Properties of callbacks that outlive their topology                     *)

\* the Ack callback that runs next was scheduled for a node that
\* reset_network has since removed from self.nodes
StaleAck == AckFired.source \notin Range(nodes)

\* C31: an Ack that was scheduled before reset_network or generate_topology
\* and runs after it leaves every node of the present topology as it was
\* (congestion, packets_in_flight, last_ack_time, control and all) and
\* leaves routing_stats as the reset made it.
C31_StaleAckIsHarmless ==
    [][(lastOp'.op = "handle_packet_ack" /\ StaleAck)
         => /\ \A i \in Range(nodes) : nd'[i] = nd[i]
            /\ nodes' = nodes
            /\ stats' = stats]_vars

\* a stale Ack has run on a node that is no longer in the topology, and
\* the topology generated since has nodes, one of which has sent a packet
C31_Witness ==
    /\ lastOp.op = "handle_packet_ack"
    /\ \E i \in DOMAIN nd \ Range(nodes) :
          /\ nd[i].tcp_control # NoControl
          /\ nd[i].tcp_control.packets_acked > 0
          /\ nd[i].last_ack_time = now
    /\ \E j \in Range(nodes) : nd[j].packets_in_flight > 0
    /\ stats.total_packets = 1

-----------------------------------------------------------------------------
(* Properties of the router under every order of equal distances           *)

\* C32: for a fixed topology with fixed latencies, dijkstra_shortest_path(a,
\* b) returns the same path and the same total_latency whichever node of
\* equal tentative distance min() takes first from the unvisited set.
C32_RouteIsTheSameForEveryOrder ==
    Routed =>
        \A r \in DijkstraShortestPath(World, lastOp.source, lastOp.destination) :
            r = route

-----------------------------------------------------------------------------
(* Properties of the recurring callbacks                                   *)

\* C33: whatever the user starts, stops and resets and whichever callbacks
\* have run, at most one generate callback and at most one decay callback
\* are scheduled.
C33_OneChainOfEachKind ==
    /\ Len(OfKind(timers, "generate")) <= 1
    /\ Len(OfKind(timers, "decay")) <= 1

-----------------------------------------------------------------------------
(* Properties of the timeout check                                         *)

\* C34: a node is timed out only when its oldest unacknowledged packet was
\* sent at least timeout_threshold ago; so a generate tick that sends from
\* a node with nothing in flight does not time that node out, however long
\* the node had been idle.
C34_NoTimeoutInTheTickThatSent ==
    [][(SendTick /\ nd[lastOp'.draw.source].packets_in_flight = 0)
          => ~TimedOutInStep(lastOp'.draw.source)]_vars

-----------------------------------------------------------------------------
(* Properties of the counters                                              *)

\* the Ack callbacks scheduled for node i as source that have not run yet
PendingAcks(i) ==
    {k \in 1..Len(timers) : timers[k].kind = "ack" /\ timers[k].source = i}

\* C35: in every reachable state the packets_in_flight of every node is the
\* number of Ack callbacks scheduled for it as source that have not run.
C35_InFlightCountsPendingAcks ==
    \A i \in DOMAIN nd : nd[i].packets_in_flight = Cardinality(PendingAcks(i))

\* C36: in every reachable state the control a node holds has acknowledged
\* no more packets than it has sent, also when set_congestion_algorithm
\* gave the node a new control while Acks of earlier sends were scheduled.
C36_AckedAtMostSent ==
    \A i \in DOMAIN nd :
        nd[i].tcp_control # NoControl =>
            nd[i].tcp_control.packets_acked <= nd[i].tcp_control.packets_sent

-----------------------------------------------------------------------------
(* Runs to the end: the two-node network, a user who gives a few commands  *)
(* and stops a running simulation no later than LiveHorizon, and Tk's      *)
(* main loop, which lets time pass and runs every callback when it is due. *)
(* Once the simulation is stopped the generate and decay callbacks stop    *)
(* scheduling themselves, so every run comes to an end.                    *)

\* the time by which the user has stopped the simulation
LiveHorizon == 600
\* commands of one run besides that stop, and a number of callbacks that no
\* run reaches
MaxLiveCommands == 2
MaxLiveFires == 40

InitLive ==
    /\ nodes = PairWorld.nodes /\ links = PairWorld.links /\ nd = PairWorld.nd
    /\ selected = PairWorld.selected /\ packets = PairWorld.packets
    /\ running = PairWorld.running /\ load = PairWorld.load
    /\ rate = PairWorld.rate /\ algorithm = PairWorld.algorithm
    /\ stats = PairWorld.stats /\ series = PairWorld.series
    /\ timers = PairWorld.timers /\ now = PairWorld.now
    /\ route = NoRoute
    /\ lastOp = NoOp
    /\ calls = NoCalls(MaxLiveFires, MaxLiveCommands,
                       MaxLiveFires + MaxLiveCommands)

\* time passes until the next callback is due; while the simulation runs,
\* not beyond LiveHorizon
ElapseLive ==
    /\ Len(timers) > 0
    /\ timers[NextTimer(World)].due > now
    /\ running => timers[NextTimer(World)].due <= LiveHorizon
    /\ Commit([World EXCEPT !.now = timers[NextTimer(World)].due])
    /\ lastOp' = NoOp
    /\ UNCHANGED <<route, calls>>

\* toggle_simulation stopping the simulation at the horizon
StopAtHorizon ==
    /\ running
    /\ Len(timers) > 0 => timers[NextTimer(World)].due > LiveHorizon
    /\ Commit(ToggleSimulationW(World, NoChoice([World EXCEPT !.running = FALSE])))
    /\ lastOp' = [op |-> "toggle_simulation",
                  draw |-> NoChoice([World EXCEPT !.running = FALSE])]
    /\ UNCHANGED <<route, calls>>

\* Tk's main loop has a callback to run: the scheduled callback that comes
\* first is due.  This is ENABLED (FireGenerate \/ FireAck \/ FireDecay).
CallbackDue ==
    /\ Len(timers) > 0
    /\ timers[NextTimer(World)].due <= now
    /\ calls.fires < calls.maxFires
    /\ calls.fires + calls.commands < calls.maxCalls

\* the step runs a callback: FireGenerate, FireAck and FireDecay, and only
\* they, count one more in calls.fires
CallbackRuns == calls'.fires = calls.fires + 1

NextLive ==
    \/ ToggleSimulation
    \/ SetCongestionAlgorithm
    \/ ResetNetwork
    \/ Idle
    \/ StopAtHorizon
    \/ FireGenerate
    \/ FireAck
    \/ FireDecay
    \/ ElapseLive

\* Tk lets time pass and runs a callback that stays due (weak fairness of
\* FireGenerate \/ FireAck \/ FireDecay, written out with CallbackDue for
\* its ENABLED); the user stops the simulation at the horizon.
SpecLive ==
    /\ InitLive
    /\ [][NextLive]_vars
    /\ WF_vars(ElapseLive)
    /\ ([]<>(~CallbackDue) \/ []<><<CallbackRuns>>_vars)
    /\ WF_vars(StopAtHorizon)

-----------------------------------------------------------------------------
(* Properties of runs to the end                                           *)

\* the Ack callbacks that are scheduled, in the order they were scheduled
AckTimers == OfKind(timers, "ack")

-----------------------------------------------------------------------------
(* Properties of the states of a control                                   *)

\* C39: a control is in fast_recovery exactly when its duplicate_acks is at
\* least 3; a Tahoe control never counts 3 duplicates after a call and is
\* never in fast_recovery; a Reno control enters slow_start only by
\* on_timeout, never by a duplicate ACK.
C39_FastRecoveryIffThreeDuplicates ==
    \A i \in DOMAIN nd :
        LET c == nd[i].tcp_control
        IN  /\ c.state = "fast_recovery" <=> c.duplicate_acks >= 3
            /\ c.algorithm = "Tahoe" =>
                  c.duplicate_acks < 3 /\ c.state # "fast_recovery"
            /\ (/\ c.algorithm = "Reno"
                /\ lastOp # NoOp
                /\ c.state = "slow_start"
                /\ lastOp.before.state # "slow_start")
                  => lastOp.op = "on_timeout"

\* a Reno control in fast_recovery has counted a fifth duplicate
C39_Witness ==
    /\ lastOp.op = "on_duplicate_ack"
    /\ nd[1].tcp_control.algorithm = "Reno"
    /\ nd[1].tcp_control.state = "fast_recovery"
    /\ nd[1].tcp_control.duplicate_acks = 5

\* C40: a control in slow_start has cwnd < ssthresh, one in
\* congestion_avoidance has cwnd >= ssthresh and one in fast_recovery has
\* cwnd >= ssthresh + 3.
C40_WindowAndThresholdByState ==
    \A i \in DOMAIN nd :
        LET c == nd[i].tcp_control
        IN  /\ c.state = "slow_start" => RLt(c.cwnd, c.ssthresh)
            /\ c.state = "congestion_avoidance" => RLe(c.ssthresh, c.cwnd)
            /\ c.state = "fast_recovery" =>
                  RLe(RAdd(c.ssthresh, RInt(3)), c.cwnd)

\* a Reno control has just entered fast_recovery from congestion_avoidance
\* with a window that was not a whole number
C40_Witness ==
    /\ lastOp.op = "on_duplicate_ack"
    /\ lastOp.before.state = "congestion_avoidance"
    /\ lastOp.before.cwnd[2] > 1
    /\ nd[1].tcp_control.state = "fast_recovery"
    /\ nd[1].tcp_control.cwnd = RAdd(nd[1].tcp_control.ssthresh, RInt(3))

====
